---- MODULE Spec2Model ----
(***************************************************************************)
(* Task orchestration engine of InstantSplat's API server: the in-memory   *)
(* task registry (task_manager.py, class TaskManager), the upload task     *)
(* handlers that drive it (api_server.py) and the reconstruction pipeline  *)
(* whose progress callbacks reach it (reconstruction_processor.py).        *)
(*                                                                         *)
(* Time is counted in ticks of one retention window                        *)
(* (api_config.TASK_RETENTION_HOURS hours).                                *)
(***************************************************************************)
EXTENDS Integers, Sequences, FiniteSets, TLC

VARIABLES
    tasks,      \* TaskManager.tasks: task_id -> TaskInfo
    queue,      \* work submitted to TaskManager.executor and not yet run
    now,        \* the wall clock read by datetime.now()
    last,       \* the most recent registry call and what it returned
    returned,   \* the ids returned by create_task, in call order
    uuidCount,  \* how many uuid4 values have been drawn
    calls,      \* how many registry calls the caller has made
    hpc,        \* upload task handler of each task: its position
    ppc,        \* pipeline worker (process_reconstruction) of each task
    loopOwner,  \* the coroutine the asyncio event loop is running, if any
    workers,    \* TaskManager.executor: what each worker thread is running
    finished,   \* the replication job that ended last, and how it ended
    store,      \* the projects table of the store: task_id -> row
    threads,    \* client threads inside a registry method: their position
    task_lock,  \* TaskManager.task_lock: the thread that holds it, if any
    sweeper     \* the cleanup_worker thread: its position and what it did

regVars == <<tasks, queue, last, returned, uuidCount>>
upVars == <<hpc, ppc, loopOwner>>
exVars == <<workers, finished, store>>
thVars == <<threads, task_lock, sweeper>>
vars ==
    <<tasks, queue, now, last, returned, uuidCount, calls, hpc, ppc, loopOwner,
      workers, finished, store, threads, task_lock, sweeper>>

----------------------------------------------------------------------------
(* Bounds of the model *)

MaxTime == 2        \* the clock stops after this many ticks
MaxCalls == 3       \* registry calls an arbitrary caller makes in one run
MaxQueue == 1       \* executor jobs waiting at any one time
MaxUploads == 1     \* uploads accepted in one run
MaxSteps == 3       \* largest step count passed to update_task_progress
MaxThreadCalls == 1 \* registry calls each concurrent thread makes in one run

----------------------------------------------------------------------------
(* Values *)

\* Python's None, and an optional value that is present
None == <<>>
Some(x) == <<x>>

TaskStatus ==
    {"pending", "uploading", "validating", "extracting", "processing",
     "rendering", "completed", "failed", "cancelled"}

TerminalStatuses == {"completed", "failed", "cancelled"}

TaskType == {"video_reconstruction", "image_reconstruction"}

\* TaskProgress(): the dataclass defaults. percentage and
\* estimated_time_remaining are kept exact as fractions num/den.
TaskProgress ==
    [current_step |-> "", total_steps |-> 0, completed_steps |-> 0,
     percentage |-> [num |-> 0, den |-> 1],
     estimated_time_remaining |-> None]

\* str(uuid.uuid4()): a value no earlier call has drawn
Uuid4(n) == "uuid" \o ToString(n)

\* input_data.get('task_id', str(uuid.uuid4()))
InputTaskId(input_data, fresh) ==
    IF "task_id" \in DOMAIN input_data THEN input_data["task_id"] ELSE fresh

\* Python truthiness of an Optional[str] argument: None and "" are falsy
Truthy(s) == s # None /\ s # Some("")

Ret(op, id, ret) == [op |-> op, id |-> id, ret |-> ret]

----------------------------------------------------------------------------
(* TaskManager: the registry operations.  Each one is the whole method,    *)
(* executed under task_lock; it changes tasks, queue, last (and, for        *)
(* create_task, returned and uuidCount) and nothing else.                  *)

TaskInfo(task_id, task_type, input_data, t) ==
    [task_id |-> task_id, task_type |-> task_type, status |-> "pending",
     created_at |-> t, updated_at |-> t, progress |-> TaskProgress,
     input_data |-> input_data, result_data |-> None,
     error_message |-> None, processing_time |-> None]

\* create_task called when drawn uuid4 values have been drawn so far; the
\* default of input_data.get is evaluated, and so drawn, in every call
create_task_at(task_type, input_data, drawn) ==
    LET fresh == Uuid4(drawn + 1)
        task_id == InputTaskId(input_data, fresh)
    IN  /\ uuidCount' = drawn + 1
        /\ tasks' = [id \in DOMAIN tasks \cup {task_id} |->
                        IF id = task_id
                        THEN TaskInfo(task_id, task_type, input_data, now)
                        ELSE tasks[id]]
        /\ returned' = Append(returned, task_id)
        /\ last' = Ret("create_task", task_id, Some(task_id))
        /\ UNCHANGED queue

create_task(task_type, input_data) ==
    create_task_at(task_type, input_data, uuidCount)

get_task(task_id) ==
    /\ last' = Ret("get_task", task_id,
                   IF task_id \in DOMAIN tasks THEN Some(task_id) ELSE None)
    /\ UNCHANGED <<tasks, queue, returned, uuidCount>>

\* the record update_task_status leaves behind
StatusUpdated(task, status, error_message, t) ==
    [task EXCEPT
        !.status = status,
        !.updated_at = t,
        !.error_message =
            IF Truthy(error_message) THEN error_message ELSE @,
        !.processing_time =
            IF status \in {"completed", "failed"}
            THEN Some(t - task.created_at) ELSE @]

\* update_task_status with the replication job submitted before the lookup
update_task_status_EnqueueFirst(task_id, status, error_message) ==
    /\ queue' = Append(queue,
            [kind |-> "status", task_id |-> task_id,
             status |-> status, error_message |-> error_message])
    /\ IF task_id \notin DOMAIN tasks
       THEN /\ last' = Ret("update_task_status", task_id, FALSE)
            /\ UNCHANGED <<tasks, returned, uuidCount>>
       ELSE /\ tasks' = [tasks EXCEPT ![task_id] =
                            StatusUpdated(@, status, error_message, now)]
            /\ last' = Ret("update_task_status", task_id, TRUE)
            /\ UNCHANGED <<returned, uuidCount>>

update_task_status(task_id, status, error_message) ==
    IF task_id \notin DOMAIN tasks
    THEN /\ last' = Ret("update_task_status", task_id, FALSE)
         /\ UNCHANGED <<tasks, queue, returned, uuidCount>>
    ELSE /\ tasks' = [tasks EXCEPT ![task_id] =
                        StatusUpdated(@, status, error_message, now)]
         /\ queue' = Append(queue,
                [kind |-> "status", task_id |-> task_id,
                 status |-> status, error_message |-> error_message])
         /\ last' = Ret("update_task_status", task_id, TRUE)
         /\ UNCHANGED <<returned, uuidCount>>

\* update_task_progress that submits no replication job
update_task_progress_NoJob(task_id, current_step, completed_steps, total_steps) ==
    IF task_id \notin DOMAIN tasks
    THEN /\ last' = Ret("update_task_progress", task_id, FALSE)
         /\ UNCHANGED <<tasks, queue, returned, uuidCount>>
    ELSE /\ tasks' = [tasks EXCEPT ![task_id] =
                        [@ EXCEPT !.updated_at = now,
                                  !.progress.current_step = current_step,
                                  !.progress.completed_steps = completed_steps,
                                  !.progress.total_steps = total_steps]]
         /\ last' = Ret("update_task_progress", task_id, TRUE)
         /\ UNCHANGED <<queue, returned, uuidCount>>

\* the percentage cut to a whole number
Percentage_Whole(completed_steps, total_steps) ==
    IF total_steps > 0
    THEN [num |-> (completed_steps * 100) \div total_steps, den |-> 1]
    ELSE [num |-> 0, den |-> 1]

\* (completed_steps / total_steps * 100) if total_steps > 0 else 0
Percentage(completed_steps, total_steps) ==
    IF total_steps > 0
    THEN [num |-> completed_steps * 100, den |-> total_steps]
    ELSE [num |-> 0, den |-> 1]

\* percentage < 100, for a fraction with a positive denominator
Below100(p) == p.num < 100 * p.den

\* the estimate without the test percentage < 100
EstimatedTime_NoPercentageTest(completed_steps, total_steps, elapsed) ==
    IF completed_steps > 0
    THEN Some([num |-> elapsed * (total_steps - completed_steps),
               den |-> completed_steps])
    ELSE None

\* (elapsed_time / completed_steps) * (total_steps - completed_steps)
EstimatedTime(completed_steps, total_steps, elapsed) ==
    IF completed_steps > 0 /\ Below100(Percentage(completed_steps, total_steps))
    THEN Some([num |-> elapsed * (total_steps - completed_steps),
               den |-> completed_steps])
    ELSE None

ProgressUpdated(task, current_step, completed_steps, total_steps, t) ==
    [task EXCEPT
        !.progress =
            [current_step |-> current_step, total_steps |-> total_steps,
             completed_steps |-> completed_steps,
             percentage |-> Percentage(completed_steps, total_steps),
             estimated_time_remaining |->
                EstimatedTime(completed_steps, total_steps,
                              t - task.created_at)],
        !.updated_at = t]

update_task_progress(task_id, current_step, completed_steps, total_steps) ==
    IF task_id \notin DOMAIN tasks
    THEN /\ last' = Ret("update_task_progress", task_id, FALSE)
         /\ UNCHANGED <<tasks, queue, returned, uuidCount>>
    ELSE /\ tasks' = [tasks EXCEPT ![task_id] =
                        ProgressUpdated(@, current_step, completed_steps,
                                        total_steps, now)]
         /\ queue' = Append(queue,
                [kind |-> "progress", task_id |-> task_id,
                 current_step |-> current_step,
                 completed_steps |-> completed_steps,
                 total_steps |-> total_steps])
         /\ last' = Ret("update_task_progress", task_id, TRUE)
         /\ UNCHANGED <<returned, uuidCount>>

\* set_task_result that stores the result and leaves the status as it is
set_task_result_KeepsStatus(task_id, result_data) ==
    IF task_id \in DOMAIN tasks
    THEN /\ tasks' = [tasks EXCEPT ![task_id] =
                        [@ EXCEPT !.result_data = Some(result_data),
                                  !.updated_at = now]]
         /\ queue' = Append(queue,
                [kind |-> "result", task_id |-> task_id,
                 result_data |-> result_data,
                 processing_time |-> now - tasks[task_id].created_at])
         /\ last' = Ret("set_task_result", task_id, TRUE)
         /\ UNCHANGED <<returned, uuidCount>>
    ELSE /\ last' = Ret("set_task_result", task_id, FALSE)
         /\ UNCHANGED <<tasks, queue, returned, uuidCount>>

ResultSet(task, result_data, t) ==
    [task EXCEPT
        !.result_data = Some(result_data),
        !.status = "completed",
        !.updated_at = t,
        !.processing_time = Some(t - task.created_at)]

set_task_result(task_id, result_data) ==
    IF task_id \in DOMAIN tasks
    THEN /\ tasks' = [tasks EXCEPT ![task_id] = ResultSet(@, result_data, now)]
         /\ queue' = Append(queue,
                [kind |-> "result", task_id |-> task_id,
                 result_data |-> result_data,
                 processing_time |-> now - tasks[task_id].created_at])
         /\ last' = Ret("set_task_result", task_id, TRUE)
         /\ UNCHANGED <<returned, uuidCount>>
    ELSE /\ last' = Ret("set_task_result", task_id, FALSE)
         /\ UNCHANGED <<tasks, queue, returned, uuidCount>>

\* setattr(task, field_name, field_value)
FieldSet(task, field_name, field_value, t) ==
    [f \in DOMAIN task |->
        IF f = "updated_at" THEN t
        ELSE IF f = field_name THEN field_value
        ELSE task[f]]

set_field(task_id, field_name, field_value) ==
    IF task_id \in DOMAIN tasks
    THEN /\ tasks' = [tasks EXCEPT ![task_id] =
                        FieldSet(@, field_name, field_value, now)]
         /\ queue' = Append(queue,
                [kind |-> "field", task_id |-> task_id,
                 field_name |-> field_name, field_value |-> field_value])
         /\ last' = Ret("set_field", task_id, TRUE)
         /\ UNCHANGED <<returned, uuidCount>>
    ELSE /\ last' = Ret("set_field", task_id, FALSE)
         /\ UNCHANGED <<tasks, queue, returned, uuidCount>>

Cancelled(task, t) ==
    [task EXCEPT !.status = "cancelled", !.updated_at = t]

\* cancel_task without the test for a finished task
cancel_task_NoTerminalTest(task_id) ==
    IF task_id \notin DOMAIN tasks
    THEN /\ last' = Ret("cancel_task", task_id, FALSE)
         /\ UNCHANGED <<tasks, queue, returned, uuidCount>>
    ELSE /\ tasks' = [tasks EXCEPT ![task_id] = Cancelled(@, now)]
         /\ queue' = Append(queue,
                [kind |-> "status", task_id |-> task_id,
                 status |-> "cancelled", error_message |-> None])
         /\ last' = Ret("cancel_task", task_id, TRUE)
         /\ UNCHANGED <<returned, uuidCount>>

cancel_task(task_id) ==
    IF task_id \notin DOMAIN tasks
    THEN /\ last' = Ret("cancel_task", task_id, FALSE)
         /\ UNCHANGED <<tasks, queue, returned, uuidCount>>
    ELSE IF tasks[task_id].status \in {"completed", "failed", "cancelled"}
    THEN /\ last' = Ret("cancel_task", task_id, FALSE)
         /\ UNCHANGED <<tasks, queue, returned, uuidCount>>
    ELSE /\ tasks' = [tasks EXCEPT ![task_id] = Cancelled(@, now)]
         /\ queue' = Append(queue,
                [kind |-> "status", task_id |-> task_id,
                 status |-> "cancelled", error_message |-> None])
         /\ last' = Ret("cancel_task", task_id, TRUE)
         /\ UNCHANGED <<returned, uuidCount>>

\* timedelta(hours=api_config.TASK_RETENTION_HOURS), in ticks
TASK_RETENTION == 1

\* cutoff_time = datetime.now() - timedelta(hours=retention_hours)
cutoff_time(retention_hours) == now - retention_hours

\* the ids collected when the status test is left out
tasks_to_remove_AnyStatus(retention_hours) ==
    {id \in DOMAIN tasks :
        tasks[id].updated_at < cutoff_time(retention_hours)}

\* the ids cleanup_old_tasks collects under a retention window
tasks_to_remove_within(retention_hours) ==
    {id \in DOMAIN tasks :
        /\ tasks[id].status \in {"completed", "failed", "cancelled"}
        /\ tasks[id].updated_at < cutoff_time(retention_hours)}

tasks_to_remove == tasks_to_remove_within(TASK_RETENTION)

\* cleanup_old_tasks when api_config.TASK_RETENTION_HOURS is retention_hours
cleanup_old_tasks_with(retention_hours) ==
    /\ tasks' = [id \in DOMAIN tasks \ tasks_to_remove_within(retention_hours)
                    |-> tasks[id]]
    /\ UNCHANGED <<queue, last, returned, uuidCount>>

cleanup_old_tasks ==
    /\ tasks' = [id \in DOMAIN tasks \ tasks_to_remove |-> tasks[id]]
    /\ UNCHANGED <<queue, last, returned, uuidCount>>

----------------------------------------------------------------------------
(* TaskManager.executor: a worker takes the oldest waiting job and runs it. *)
(* A replication job (update_status, update_progress, update_result,        *)
(* update_field) catches every exception and touches no registry state.     *)

RunJob ==
    /\ queue # <<>>
    /\ queue' = Tail(queue)
    /\ UNCHANGED <<tasks, now, last, returned, uuidCount, calls, exVars, thVars, upVars>>

\* the clock advances
Tick ==
    /\ now < MaxTime
    /\ now' = now + 1
    /\ UNCHANGED <<regVars, calls, exVars, thVars, upVars>>

\* cleanup_worker: sleep(cleanup_interval), then cleanup_old_tasks()
CleanupWorker ==
    /\ cleanup_old_tasks
    /\ UNCHANGED <<now, calls, exVars, thVars, upVars>>

----------------------------------------------------------------------------
(* Spec: the registry under an arbitrary caller of its public methods.     *)

\* the task_id values a caller may put in input_data
GivenIds == {"a"}

\* an id no create_task call ever stores
AbsentId == "absent"

InputDatas ==
    {[email |-> "e"]} \cup
    {[task_id |-> g, email |-> "e"] : g \in GivenIds \cup DOMAIN tasks}

CallIds == DOMAIN tasks \cup {AbsentId}

\* (status, error_message) arguments of update_task_status
StatusArgs ==
    {<<"processing", None>>, <<"completed", None>>, <<"failed", None>>,
     <<"failed", Some("boom")>>, <<"processing", Some("boom")>>}

ProgressArgs == {<<1, 2>>, <<2, 2>>}

ResultArgs == {"r1"}

FieldArgs == {<<"error_message", Some("boom")>>, <<"status", "pending">>}

\* one more call by the caller; the clock and the upload handlers stand still
Called ==
    /\ calls < MaxCalls
    /\ calls' = calls + 1
    /\ UNCHANGED <<now, upVars, exVars, thVars>>

CallCreateTask ==
    /\ \E input_data \in InputDatas :
            create_task("image_reconstruction", input_data)
    /\ Called

CallGetTask ==
    /\ \E id \in CallIds : get_task(id)
    /\ Called

CallUpdateTaskStatus ==
    /\ Len(queue) < MaxQueue
    /\ \E id \in CallIds, a \in StatusArgs :
            update_task_status(id, a[1], a[2])
    /\ Called

CallUpdateTaskProgress ==
    /\ Len(queue) < MaxQueue
    /\ \E id \in CallIds, p \in ProgressArgs :
            update_task_progress(id, "step", p[1], p[2])
    /\ Called

CallSetTaskResult ==
    /\ Len(queue) < MaxQueue
    /\ \E id \in CallIds, result_data \in ResultArgs :
            set_task_result(id, result_data)
    /\ Called

CallSetField ==
    /\ Len(queue) < MaxQueue
    /\ \E id \in CallIds, f \in FieldArgs : set_field(id, f[1], f[2])
    /\ Called

CallCancelTask ==
    /\ Len(queue) < MaxQueue
    /\ \E id \in CallIds : cancel_task(id)
    /\ Called

NoTasks == [id \in {} |-> None]

\* api_config.MAX_CONCURRENT_TASKS: max_workers of TaskManager.executor
MAX_CONCURRENT_TASKS == 2

\* the worker threads of ThreadPoolExecutor(max_workers=max_concurrent_tasks)
Workers == 1..MAX_CONCURRENT_TASKS

\* the client threads that call the registry concurrently
ThreadIds == {"t1", "t2"}

NoCall == [op |-> "none", task_id |-> AbsentId, args |-> <<>>]

\* a thread outside the registry
IdleThread ==
    [pc |-> "idle", call |-> NoCall, ret |-> None, todo |-> <<>>,
     entry |-> None, exit |-> None, n |-> 0]

Init ==
    /\ tasks = NoTasks
    /\ queue = <<>>
    /\ now = 0
    /\ last = Ret("none", AbsentId, None)
    /\ returned = <<>>
    /\ uuidCount = 0
    /\ calls = 0
    /\ hpc = NoTasks
    /\ ppc = NoTasks
    /\ loopOwner = None
    /\ workers = [w \in Workers |-> None]
    /\ finished = None
    /\ store = NoTasks
    /\ threads = [t \in ThreadIds |-> IdleThread]
    /\ task_lock = None
    /\ sweeper = [pc |-> "sleep", cleaned_count |-> 0, logged |-> FALSE]

Next ==
    \/ CallCreateTask
    \/ CallGetTask
    \/ CallUpdateTaskStatus
    \/ CallUpdateTaskProgress
    \/ CallSetTaskResult
    \/ CallSetField
    \/ CallCancelTask
    \/ CleanupWorker
    \/ RunJob
    \/ Tick

Spec == Init /\ [][Next]_vars

----------------------------------------------------------------------------
(* SpecUpload: the API server, over a stretch of time shorter than one     *)
(* tick of the clock (a pipeline run is limited by init_timeout and        *)
(* train_timeout, minutes against a retention window of a day).            *)
(* upload_file creates a task and queues its handler as a background task; *)
(* the handlers are coroutines of one asyncio event loop, so a handler     *)
(* runs alone on the loop between two awaits; process_reconstruction runs  *)
(* on a thread of the loop's default executor and reports progress through *)
(* progress_callback; delete_task is another coroutine of the loop.        *)

Extend(f, k, v) == [x \in DOMAIN f \cup {k} |-> IF x = k THEN v ELSE f[x]]

HandlerKinds == {"video", "image", "multi"}

\* config.train_timeout, in polling intervals of the training monitor
train_timeout == 2

\* int(progress * 100) of min(0.30 + (elapsed / train_timeout) * 0.50, 0.80)
TrainingPercentage(elapsed) ==
    LET ramp == 30 + (elapsed * 50) \div train_timeout
    IN  IF ramp < 80 THEN ramp ELSE 80

\* progress_callback(progress, message) of the handlers, percentage given
progress_callback(task_id, percentage) ==
    update_task_progress(task_id, "pipeline", percentage, 100)

At(id, pc) == id \in DOMAIN hpc /\ hpc[id].pc = pc

\* upload_file, from drawing the task id to add_task
Upload ==
    /\ loopOwner = None
    /\ Len(returned) < MaxUploads
    /\ \E kind \in HandlerKinds :
        LET task_id == Uuid4(uuidCount + 1)
        IN  /\ create_task_at(
                    IF kind = "video" THEN "video_reconstruction"
                    ELSE "image_reconstruction",
                    [task_id |-> task_id, email |-> "e"],
                    uuidCount + 1)
            /\ hpc' = Extend(hpc, task_id, [kind |-> kind, pc |-> "queued"])
            /\ ppc' = Extend(ppc, task_id, [pc |-> "idle", elapsed |-> 0])
    /\ UNCHANGED <<now, calls, exVars, thVars, loopOwner>>

\* the handler starts: its input checks pass and it reports EXTRACTING
HandlerStart(id) ==
    /\ At(id, "queued")
    /\ loopOwner = None
    /\ Len(queue) < MaxQueue
    /\ update_task_status(id, "extracting", None)
    /\ hpc' = [hpc EXCEPT ![id].pc = "step1"]
    /\ loopOwner' = Some(id)
    /\ UNCHANGED <<now, calls, exVars, thVars, ppc>>

\* update_task_progress(task_id, ..., 1, 5, ...)
HandlerStep1(id) ==
    /\ At(id, "step1")
    /\ Len(queue) < MaxQueue
    /\ update_task_progress(id, "extract", 1, 5)
    /\ hpc' = [hpc EXCEPT ![id].pc = "prepare"]
    /\ UNCHANGED <<now, calls, exVars, thVars, ppc, loopOwner>>

\* update_task_progress(task_id, ..., 2, 5, ...), then
\* await loop.run_in_executor(None, process_reconstruction, ...)
HandlerStep2(id) ==
    /\ At(id, "prepare")
    /\ Len(queue) < MaxQueue
    /\ update_task_progress(id, "prepare", 2, 5)
    /\ hpc' = [hpc EXCEPT ![id].pc = "awaiting"]
    /\ ppc' = [ppc EXCEPT ![id].pc = "validate"]
    /\ loopOwner' = None
    /\ UNCHANGED <<now, calls, exVars, thVars>>

\* an exception before the pipeline is started: the input file or directory
\* is missing, too few images or frames, frame extraction fails.  The
\* except clause reports FAILED and awaits the notification email.
HandlerInputError(id) ==
    /\ \/ At(id, "queued") /\ loopOwner = None
       \/ At(id, "prepare") /\ hpc[id].kind \in {"video", "image"}
    /\ Len(queue) < MaxQueue
    /\ update_task_status(id, "failed", Some("input error"))
    /\ hpc' = [hpc EXCEPT ![id].pc = "done"]
    /\ loopOwner' = None
    /\ UNCHANGED <<now, calls, exVars, thVars, ppc>>

\* process_reconstruction: progress 0.05, then the input directory is checked
PipelineValidate(id) ==
    /\ id \in DOMAIN ppc /\ ppc[id].pc = "validate"
    /\ Len(queue) < MaxQueue
    /\ progress_callback(id, 5)
    /\ \E ok \in BOOLEAN :
            ppc' = [ppc EXCEPT ![id].pc = IF ok THEN "init" ELSE "failed"]
    /\ UNCHANGED <<now, calls, exVars, thVars, hpc, loopOwner>>

\* progress 0.15, then _run_geometry_initialization
PipelineInit(id) ==
    /\ id \in DOMAIN ppc /\ ppc[id].pc = "init"
    /\ Len(queue) < MaxQueue
    /\ progress_callback(id, 15)
    /\ \E init_result \in BOOLEAN :
            ppc' = [ppc EXCEPT ![id].pc =
                        IF init_result THEN "train" ELSE "failed"]
    /\ UNCHANGED <<now, calls, exVars, thVars, hpc, loopOwner>>

\* progress 0.30, then _run_training starts the training process
PipelineTrainStart(id) ==
    /\ id \in DOMAIN ppc /\ ppc[id].pc = "train"
    /\ Len(queue) < MaxQueue
    /\ progress_callback(id, 30)
    /\ ppc' = [ppc EXCEPT ![id] = [pc |-> "monitor", elapsed |-> 0]]
    /\ UNCHANGED <<now, calls, exVars, thVars, hpc, loopOwner>>

\* one round of the monitoring loop while the training process is alive and
\* within its timeout: report progress, sleep
PipelineTrainPoll(id) ==
    /\ id \in DOMAIN ppc /\ ppc[id].pc = "monitor"
    /\ ppc[id].elapsed <= train_timeout
    /\ Len(queue) < MaxQueue
    /\ progress_callback(id, TrainingPercentage(ppc[id].elapsed))
    /\ ppc' = [ppc EXCEPT ![id].elapsed = @ + 1]
    /\ UNCHANGED <<now, calls, exVars, thVars, hpc, loopOwner>>

\* the monitoring loop ends: the process has exited (return code 0 or not),
\* or it is alive past the timeout and is terminated
PipelineTrainEnd(id) ==
    /\ id \in DOMAIN ppc /\ ppc[id].pc = "monitor"
    /\ \/ /\ ppc[id].elapsed > train_timeout
          /\ ppc' = [ppc EXCEPT ![id].pc = "failed"]
       \/ \E returncode \in {0, 1} :
            ppc' = [ppc EXCEPT ![id].pc =
                        IF returncode = 0 THEN "collect" ELSE "failed"]
    /\ UNCHANGED <<regVars, now, calls, exVars, thVars, hpc, loopOwner>>

\* progress 0.85, then the result files and metrics are collected
PipelineCollect(id) ==
    /\ id \in DOMAIN ppc /\ ppc[id].pc = "collect"
    /\ Len(queue) < MaxQueue
    /\ progress_callback(id, 85)
    /\ ppc' = [ppc EXCEPT ![id].pc = "finish"]
    /\ UNCHANGED <<now, calls, exVars, thVars, hpc, loopOwner>>

\* progress 1.0, then ReconstructionResult(success=True, ...) is returned
PipelineFinish(id) ==
    /\ id \in DOMAIN ppc /\ ppc[id].pc = "finish"
    /\ Len(queue) < MaxQueue
    /\ progress_callback(id, 100)
    /\ ppc' = [ppc EXCEPT ![id].pc = "succeeded"]
    /\ UNCHANGED <<now, calls, exVars, thVars, hpc, loopOwner>>

\* the handler resumes with reconstruction_result.success:
\* update_task_status(task_id, COMPLETED)
HandlerCompleted(id) ==
    /\ At(id, "awaiting") /\ ppc[id].pc = "succeeded"
    /\ loopOwner = None
    /\ Len(queue) < MaxQueue
    /\ update_task_status(id, "completed", None)
    /\ hpc' = [hpc EXCEPT ![id].pc =
                    IF hpc[id].kind = "video" THEN "result" ELSE "step5"]
    /\ loopOwner' = Some(id)
    /\ UNCHANGED <<now, calls, exVars, thVars, ppc>>

\* update_task_progress(task_id, ..., 5, 5, ...) (not in process_video_task)
HandlerStep5(id) ==
    /\ At(id, "step5")
    /\ Len(queue) < MaxQueue
    /\ update_task_progress(id, "done", 5, 5)
    /\ hpc' = [hpc EXCEPT ![id].pc = "result"]
    /\ UNCHANGED <<now, calls, exVars, thVars, ppc, loopOwner>>

\* set_task_result(task_id, {...}), then the notification email is awaited
HandlerResult(id) ==
    /\ At(id, "result")
    /\ Len(queue) < MaxQueue
    /\ set_task_result(id, "files")
    /\ hpc' = [hpc EXCEPT ![id].pc = "done"]
    /\ loopOwner' = None
    /\ UNCHANGED <<now, calls, exVars, thVars, ppc>>

\* the handler resumes with success = False: the exception raised for it is
\* caught and update_task_status(task_id, FAILED, str(e)) is called
HandlerFailed(id) ==
    /\ At(id, "awaiting") /\ ppc[id].pc = "failed"
    /\ loopOwner = None
    /\ Len(queue) < MaxQueue
    /\ update_task_status(id, "failed", Some("reconstruction failed"))
    /\ hpc' = [hpc EXCEPT ![id].pc = "done"]
    /\ UNCHANGED <<now, calls, exVars, thVars, ppc, loopOwner>>

\* a DELETE handler that drops the record instead of cancelling the task
delete_task_RemovesRecord(id) ==
    /\ loopOwner = None
    /\ ~At(id, "queued")
    /\ Len(queue) < MaxQueue
    /\ IF id \in DOMAIN tasks
       THEN /\ tasks' = [i \in DOMAIN tasks \ {id} |-> tasks[i]]
            /\ last' = Ret("cancel_task", id, TRUE)
            /\ UNCHANGED <<queue, returned, uuidCount>>
       ELSE get_task(id)
    /\ UNCHANGED <<now, calls, exVars, thVars, upVars>>

\* DELETE /task/{task_id}: get_task, 404 when absent, else cancel_task.
\* The client learns the id from the upload's response, after which the
\* handler starts at once: the request runs when the handler is at an await.
delete_task(id) ==
    /\ loopOwner = None
    /\ ~At(id, "queued")
    /\ Len(queue) < MaxQueue
    /\ IF id \in DOMAIN tasks THEN cancel_task(id) ELSE get_task(id)
    /\ UNCHANGED <<now, calls, exVars, thVars, upVars>>

NextUpload ==
    \/ Upload
    \/ \E id \in DOMAIN hpc : HandlerStart(id)
    \/ \E id \in DOMAIN hpc : HandlerStep1(id)
    \/ \E id \in DOMAIN hpc : HandlerStep2(id)
    \/ \E id \in DOMAIN hpc : HandlerInputError(id)
    \/ \E id \in DOMAIN hpc : PipelineValidate(id)
    \/ \E id \in DOMAIN hpc : PipelineInit(id)
    \/ \E id \in DOMAIN hpc : PipelineTrainStart(id)
    \/ \E id \in DOMAIN hpc : PipelineTrainPoll(id)
    \/ \E id \in DOMAIN hpc : PipelineTrainEnd(id)
    \/ \E id \in DOMAIN hpc : PipelineCollect(id)
    \/ \E id \in DOMAIN hpc : PipelineFinish(id)
    \/ \E id \in DOMAIN hpc : HandlerCompleted(id)
    \/ \E id \in DOMAIN hpc : HandlerStep5(id)
    \/ \E id \in DOMAIN hpc : HandlerResult(id)
    \/ \E id \in DOMAIN hpc : HandlerFailed(id)
    \/ \E id \in DOMAIN hpc \cup {AbsentId} : delete_task(id)
    \/ RunJob

SpecUpload == Init /\ [][NextUpload]_vars

----------------------------------------------------------------------------
(* SpecPool: image uploads that arrive while earlier reconstructions are   *)
(* still running.  run_in_executor(None, ...) hands each run to the event   *)
(* loop's default executor, which Python sizes by the machine (at least 5  *)
(* threads), so a run starts as soon as its handler awaits it.              *)

MaxRuns == 3

\* upload_file for an image
UploadImage ==
    /\ loopOwner = None
    /\ Len(returned) < MaxRuns
    /\ LET task_id == Uuid4(uuidCount + 1)
       IN  /\ create_task_at("image_reconstruction",
                    [task_id |-> task_id, email |-> "e"], uuidCount + 1)
           /\ hpc' = Extend(hpc, task_id, [kind |-> "image", pc |-> "queued"])
           /\ ppc' = Extend(ppc, task_id, [pc |-> "idle", elapsed |-> 0])
    /\ UNCHANGED <<now, calls, exVars, thVars, loopOwner>>

\* the process_reconstruction calls that have started and not returned
RunningPipelines ==
    {id \in DOMAIN ppc :
        ppc[id].pc \in {"validate", "init", "train", "monitor", "collect",
                        "finish"}}

NextPool ==
    \/ UploadImage
    \/ \E id \in DOMAIN hpc : HandlerStart(id)
    \/ \E id \in DOMAIN hpc : HandlerStep1(id)
    \/ \E id \in DOMAIN hpc : HandlerStep2(id)
    \/ \E id \in DOMAIN hpc : PipelineValidate(id)
    \/ \E id \in DOMAIN hpc : PipelineInit(id)
    \/ \E id \in DOMAIN hpc : PipelineTrainStart(id)
    \/ \E id \in DOMAIN hpc : PipelineTrainPoll(id)
    \/ \E id \in DOMAIN hpc : PipelineTrainEnd(id)
    \/ \E id \in DOMAIN hpc : PipelineCollect(id)
    \/ \E id \in DOMAIN hpc : PipelineFinish(id)
    \/ \E id \in DOMAIN hpc : HandlerCompleted(id)
    \/ \E id \in DOMAIN hpc : HandlerStep5(id)
    \/ \E id \in DOMAIN hpc : HandlerResult(id)
    \/ \E id \in DOMAIN hpc : HandlerFailed(id)
    \/ RunJob

SpecPool == Init /\ [][NextPool]_vars

----------------------------------------------------------------------------
(* SpecPipeline: uploads that are handled one after the other, with every  *)
(* local of process_reconstruction that decides its result.  ppc[id] holds *)
(* the position of the run and, here, the scene it finds, the directory    *)
(* it writes to, the stage processes it started, how they ended, the       *)
(* fractions it reported and the ReconstructionResult it returned.         *)

MaxPipelineRuns == 2

MaxImages == 3

\* a call of process_reconstruction that has not started
IdleRun ==
    [pc |-> "idle", elapsed |-> 0, images_dir |-> FALSE, n_images |-> 0,
     output_dir |-> None, processes |-> <<>>, init |-> "none",
     train |-> "none", terminated |-> FALSE, collected |-> FALSE,
     reports |-> <<>>, result |-> None]

\* an upload, of at most max_uploads, by a client that waits for its
\* previous task to end
UploadInTurn(max_uploads) ==
    /\ loopOwner = None
    /\ Len(returned) < max_uploads
    /\ \A id \in DOMAIN hpc : hpc[id].pc = "done"
    /\ \E kind \in HandlerKinds :
        LET task_id == Uuid4(uuidCount + 1)
        IN  /\ create_task_at(
                    IF kind = "video" THEN "video_reconstruction"
                    ELSE "image_reconstruction",
                    [task_id |-> task_id, email |-> "e"],
                    uuidCount + 1)
            /\ hpc' = Extend(hpc, task_id, [kind |-> kind, pc |-> "queued"])
            /\ ppc' = Extend(ppc, task_id, IdleRun)
    /\ UNCHANGED <<now, calls, exVars, thVars, loopOwner>>

Fraction(hundredths) == [num |-> hundredths, den |-> 100]

\* a ramp of the training progress that is too steep
TrainingFraction_SteepRamp(elapsed) ==
    [num |-> 30 * train_timeout + elapsed * 60, den |-> 100 * train_timeout]

\* min(0.30 + (elapsed / train_timeout) * 0.50, 0.80)
TrainingFraction(elapsed) ==
    LET ramp == 30 * train_timeout + elapsed * 50
    IN  [num |-> IF ramp < 80 * train_timeout THEN ramp
                 ELSE 80 * train_timeout,
         den |-> 100 * train_timeout]

\* _update_progress(progress_callback, progress, ...): the handler's callback
\* turns the fraction into int(progress * 100) steps of 100
ReportProgress(id, progress) ==
    /\ Len(queue) < MaxQueue
    /\ progress_callback(id, (progress.num * 100) \div progress.den)

Reported(run, progress) ==
    [run EXCEPT !.reports = Append(@,
        [progress |-> progress, training |-> run.train = "running"])]

\* the input test that only looks for the images directory
InputError_DirOnly(images_dir, n_images) ==
    IF ~images_dir THEN Some("Images directory not found") ELSE None

\* the ValueError of the input tests, None when the scene passes them
InputError(images_dir, n_images) ==
    IF ~images_dir THEN Some("Images directory not found")
    ELSE IF n_images < 3
    THEN Some("at least 3 images are needed, found " \o ToString(n_images))
    ELSE None

\* a result that keeps no error message
Failure_NoMessage(run, e) ==
    [run EXCEPT
        !.pc = "failed",
        !.result = Some([success |-> FALSE, output_dir |-> "",
                         error_message |-> None])]

\* except Exception as e: the ReconstructionResult that is returned
Failure(run, e) ==
    [run EXCEPT
        !.pc = "failed",
        !.result = Some([success |-> FALSE,
                         output_dir |-> IF run.output_dir # None
                                        THEN run.output_dir[1] ELSE "",
                         error_message |-> Some(e)])]

\* how a stage process can end: exit code 0, another exit code, the timeout,
\* or an exception while it is launched
StageOutcomes == {"exit0", "nonzero", "timeout", "exception"}

\* a geometry initialization that only fails on a timeout or an exception
GeometryInitialization_IgnoresExitCode(outcome) ==
    outcome \in {"exit0", "nonzero"}

\* the value _run_geometry_initialization returns
GeometryInitialization(outcome) == outcome = "exit0"

\* progress 0.05, the input tests, then output_dir is set and created
ReconstructionValidate(id) ==
    /\ id \in DOMAIN ppc /\ ppc[id].pc = "validate"
    /\ ReportProgress(id, Fraction(5))
    /\ \E images_dir \in BOOLEAN, count \in 0..MaxImages, mkdir \in BOOLEAN :
        LET n_images == IF images_dir THEN count ELSE 0
            run == [Reported(ppc[id], Fraction(5)) EXCEPT
                        !.images_dir = images_dir, !.n_images = n_images]
            e == InputError(images_dir, n_images)
            made == [run EXCEPT !.output_dir = Some("output_infer")]
        IN  ppc' = [ppc EXCEPT ![id] =
                IF e # None THEN Failure(run, e[1])
                ELSE IF ~mkdir THEN Failure(made, "cannot create directory")
                ELSE [made EXCEPT !.pc = "init"]]
    /\ UNCHANGED <<now, calls, exVars, thVars, hpc, loopOwner>>

\* progress 0.15, then _run_geometry_initialization runs init_geo.py
ReconstructionInit(id) ==
    /\ id \in DOMAIN ppc /\ ppc[id].pc = "init"
    /\ ReportProgress(id, Fraction(15))
    /\ \E outcome \in StageOutcomes :
        LET run == [Reported(ppc[id], Fraction(15)) EXCEPT
                        !.init = outcome,
                        !.processes = IF outcome = "exception" THEN @
                                      ELSE Append(@, "init_geo")]
        IN  ppc' = [ppc EXCEPT ![id] =
                IF GeometryInitialization(outcome)
                THEN [run EXCEPT !.pc = "train"]
                ELSE Failure(run, "Geometry initialization failed")]
    /\ UNCHANGED <<now, calls, exVars, thVars, hpc, loopOwner>>

\* progress 0.30, then _run_training starts train.py
ReconstructionTrainStart(id) ==
    /\ id \in DOMAIN ppc /\ ppc[id].pc = "train"
    /\ ReportProgress(id, Fraction(30))
    /\ \E launched \in BOOLEAN :
        LET run == Reported(ppc[id], Fraction(30))
        IN  ppc' = [ppc EXCEPT ![id] =
                IF launched
                THEN [run EXCEPT !.pc = "monitor", !.elapsed = 0,
                                 !.train = "running",
                                 !.processes = Append(@, "train")]
                ELSE Failure([run EXCEPT !.train = "exception"],
                             "Training failed")]
    /\ UNCHANGED <<now, calls, exVars, thVars, hpc, loopOwner>>

\* one round of the monitoring loop, the process alive and within its
\* timeout: report progress, sleep
ReconstructionTrainPoll(id) ==
    /\ id \in DOMAIN ppc /\ ppc[id].pc = "monitor"
    /\ ppc[id].elapsed <= train_timeout
    /\ ReportProgress(id, TrainingFraction(ppc[id].elapsed))
    /\ ppc' = [ppc EXCEPT ![id] =
            [Reported(@, TrainingFraction(ppc[id].elapsed)) EXCEPT
                !.elapsed = @ + 1]]
    /\ UNCHANGED <<now, calls, exVars, thVars, hpc, loopOwner>>

\* the monitoring loop ends: the process is alive past the timeout and is
\* terminated, or it has exited with return code 0 or not; _run_training
\* returns False in every case but the return code 0
ReconstructionTrainEnd(id) ==
    /\ id \in DOMAIN ppc /\ ppc[id].pc = "monitor"
    /\ \/ /\ ppc[id].elapsed > train_timeout
          /\ ppc' = [ppc EXCEPT ![id] =
                Failure([@ EXCEPT !.train = "timeout", !.terminated = TRUE],
                        "Training failed")]
       \/ \E returncode \in {0, 1} :
            ppc' = [ppc EXCEPT ![id] =
                IF returncode = 0
                THEN [@ EXCEPT !.pc = "collect", !.train = "exit0"]
                ELSE Failure([@ EXCEPT !.train = "nonzero"],
                             "Training failed")]
    /\ UNCHANGED <<regVars, now, calls, exVars, thVars, hpc, loopOwner>>

\* progress 0.85, then the result files and metrics are collected
ReconstructionCollect(id) ==
    /\ id \in DOMAIN ppc /\ ppc[id].pc = "collect"
    /\ ReportProgress(id, Fraction(85))
    /\ ppc' = [ppc EXCEPT ![id] =
            [Reported(@, Fraction(85)) EXCEPT
                !.pc = "finish", !.collected = TRUE]]
    /\ UNCHANGED <<now, calls, exVars, thVars, hpc, loopOwner>>

\* progress 1.0, then ReconstructionResult(success=True, ...) is returned
ReconstructionFinish(id) ==
    /\ id \in DOMAIN ppc /\ ppc[id].pc = "finish"
    /\ ReportProgress(id, Fraction(100))
    /\ ppc' = [ppc EXCEPT ![id] =
            [Reported(@, Fraction(100)) EXCEPT
                !.pc = "succeeded",
                !.result = Some([success |-> TRUE,
                                 output_dir |-> ppc[id].output_dir[1],
                                 error_message |-> None])]]
    /\ UNCHANGED <<now, calls, exVars, thVars, hpc, loopOwner>>

\* str(e) of the exception the handler raises for a result without success
ReconstructionError(kind, error_message) ==
    (IF kind = "multi" THEN "multi-image reconstruction failed: "
     ELSE "reconstruction failed: ")
        \o (IF Truthy(error_message) THEN error_message[1]
            ELSE "reconstruction failed")

\* the handler resumes with success = False:
\* update_task_status(task_id, FAILED, str(e))
HandlerReconstructionFailed(id) ==
    /\ At(id, "awaiting") /\ ppc[id].pc = "failed"
    /\ loopOwner = None
    /\ Len(queue) < MaxQueue
    /\ update_task_status(id, "failed",
            Some(ReconstructionError(hpc[id].kind,
                                     ppc[id].result[1].error_message)))
    /\ hpc' = [hpc EXCEPT ![id].pc = "done"]
    /\ UNCHANGED <<now, calls, exVars, thVars, ppc, loopOwner>>

\* the server's first upload
FirstUpload == UploadInTurn(1)

NextPipeline ==
    \/ FirstUpload
    \/ \E id \in DOMAIN hpc : HandlerStart(id)
    \/ \E id \in DOMAIN hpc : HandlerStep1(id)
    \/ \E id \in DOMAIN hpc : HandlerStep2(id)
    \/ \E id \in DOMAIN hpc : HandlerInputError(id)
    \/ \E id \in DOMAIN hpc : ReconstructionValidate(id)
    \/ \E id \in DOMAIN hpc : ReconstructionInit(id)
    \/ \E id \in DOMAIN hpc : ReconstructionTrainStart(id)
    \/ \E id \in DOMAIN hpc : ReconstructionTrainPoll(id)
    \/ \E id \in DOMAIN hpc : ReconstructionTrainEnd(id)
    \/ \E id \in DOMAIN hpc : ReconstructionCollect(id)
    \/ \E id \in DOMAIN hpc : ReconstructionFinish(id)
    \/ \E id \in DOMAIN hpc : HandlerCompleted(id)
    \/ \E id \in DOMAIN hpc : HandlerStep5(id)
    \/ \E id \in DOMAIN hpc : HandlerResult(id)
    \/ \E id \in DOMAIN hpc : HandlerReconstructionFailed(id)
    \/ RunJob

SpecPipeline == Init /\ [][NextPipeline]_vars

----------------------------------------------------------------------------
(* SpecPipelineRuns: the same, for several uploads handled in turn.        *)

PipelineUpload == UploadInTurn(MaxPipelineRuns)

NextPipelineRuns ==
    \/ PipelineUpload
    \/ \E id \in DOMAIN hpc : HandlerStart(id)
    \/ \E id \in DOMAIN hpc : HandlerStep1(id)
    \/ \E id \in DOMAIN hpc : HandlerStep2(id)
    \/ \E id \in DOMAIN hpc : HandlerInputError(id)
    \/ \E id \in DOMAIN hpc : ReconstructionValidate(id)
    \/ \E id \in DOMAIN hpc : ReconstructionInit(id)
    \/ \E id \in DOMAIN hpc : ReconstructionTrainStart(id)
    \/ \E id \in DOMAIN hpc : ReconstructionTrainPoll(id)
    \/ \E id \in DOMAIN hpc : ReconstructionTrainEnd(id)
    \/ \E id \in DOMAIN hpc : ReconstructionCollect(id)
    \/ \E id \in DOMAIN hpc : ReconstructionFinish(id)
    \/ \E id \in DOMAIN hpc : HandlerCompleted(id)
    \/ \E id \in DOMAIN hpc : HandlerStep5(id)
    \/ \E id \in DOMAIN hpc : HandlerResult(id)
    \/ \E id \in DOMAIN hpc : HandlerReconstructionFailed(id)
    \/ RunJob

SpecPipelineRuns == Init /\ [][NextPipelineRuns]_vars

----------------------------------------------------------------------------
(* SpecCleanup: the cleanup worker under every configured retention window, *)
(* beside a caller that creates tasks and changes their status.             *)

\* the values of TASK_RETENTION_HOURS a deployment may configure, in ticks
MaxRetention == 1

RetentionHours == 0..MaxRetention

CleanupConfigured ==
    /\ \E retention_hours \in RetentionHours :
            cleanup_old_tasks_with(retention_hours)
    /\ UNCHANGED <<now, calls, exVars, thVars, upVars>>

NextCleanup ==
    \/ CallCreateTask
    \/ CallUpdateTaskStatus
    \/ CleanupConfigured
    \/ RunJob
    \/ Tick

SpecCleanup == Init /\ [][NextCleanup]_vars

----------------------------------------------------------------------------
(* SpecProgress: update_task_progress over all step counts, negative ones  *)
(* and completed_steps > total_steps included, on one task of the registry. *)

StepCounts == (0 - 1)..MaxSteps

\* the registry receives its first task
FirstTask ==
    /\ DOMAIN tasks = {}
    /\ create_task("image_reconstruction", [email |-> "e"])
    /\ UNCHANGED <<now, calls, exVars, thVars, upVars>>

ProgressCall ==
    /\ Len(queue) < MaxQueue
    /\ \E id \in DOMAIN tasks, completed_steps, total_steps \in StepCounts :
            update_task_progress(id, "step", completed_steps, total_steps)
    /\ UNCHANGED <<now, calls, exVars, thVars, upVars>>

NextProgress ==
    \/ FirstTask
    \/ ProgressCall
    \/ RunJob
    \/ Tick

SpecProgress == Init /\ [][NextProgress]_vars

----------------------------------------------------------------------------
(* SpecDelete: a task whose status changes, is cancelled and is deleted by *)
(* DELETE requests, beside the cleanup worker.                              *)

\* a DELETE /task/{task_id} request of a client
DeleteRequest == \E id \in CallIds : delete_task(id)

NextDelete ==
    \/ FirstTask
    \/ CallUpdateTaskStatus
    \/ CallCancelTask
    \/ DeleteRequest
    \/ CleanupWorker
    \/ RunJob
    \/ Tick

SpecDelete == Init /\ [][NextDelete]_vars

----------------------------------------------------------------------------
(* SpecSweeper: the cleanup_worker thread step by step.  It is a daemon     *)
(* thread started by TaskManager.__init__ that runs                         *)
(*     while True: try: sleep(cleanup_interval); cleanup_old_tasks()        *)
(*                 except Exception: logger.error(...)                      *)
(* sweeper.cleaned_count is what the last sweep returned, sweeper.logged    *)
(* whether the except clause has logged an error.                           *)

\* time.sleep(self.cleanup_interval) returns
SweeperWakes ==
    /\ sweeper.pc = "sleep"
    /\ sweeper' = [sweeper EXCEPT !.pc = "sweep"]
    /\ UNCHANGED <<regVars, now, calls, upVars, exVars, threads, task_lock>>

\* self.cleanup_old_tasks() returns cleaned_count
SweepCompletes ==
    /\ sweeper.pc = "sweep"
    /\ cleanup_old_tasks
    /\ sweeper' = [sweeper EXCEPT !.pc = "sleep",
                                  !.cleaned_count = Cardinality(tasks_to_remove)]
    /\ UNCHANGED <<now, calls, upVars, exVars, threads, task_lock>>

\* a cleanup_worker whose thread ends with the exception
AfterException_ThreadEnds == "ended"

\* except Exception inside while True: the loop goes on with the next sleep
AfterException == "sleep"

\* the sweep raises before it removes a task; the except clause logs it
SweepRaises ==
    /\ sweeper.pc = "sweep"
    /\ sweeper' = [sweeper EXCEPT !.pc = AfterException, !.logged = TRUE]
    /\ UNCHANGED <<regVars, now, calls, upVars, exVars, threads, task_lock>>

NextSweeper ==
    \/ FirstTask
    \/ CallUpdateTaskStatus
    \/ CallCancelTask
    \/ RunJob
    \/ Tick
    \/ SweeperWakes
    \/ SweepCompletes
    \/ SweepRaises

\* The sleep of the daemon thread ends after cleanup_interval seconds, and
\* nothing in cleanup_old_tasks raises on every call: of the sweeps the
\* loop starts again and again, one runs to its end.
SpecSweeper ==
    /\ Init
    /\ [][NextSweeper]_vars
    /\ WF_vars(SweeperWakes)
    /\ SF_vars(SweepCompletes)

----------------------------------------------------------------------------
(* SpecExecutor: TaskManager.executor, the one ThreadPoolExecutor that runs *)
(* the replication jobs of the registry's mutations and the functions       *)
(* given to submit_async_task.  A worker thread takes the oldest waiting    *)
(* job and is busy with it until the job ends; a replication job is busy as *)
(* long as the external store takes to answer.  The clock stands still.     *)

\* how a replication job can end: the store updated the row, the store
\* reported no matching row, the client raised APIError (caught in
\* supabase_client), anything else raised (caught in the job, a timeout
\* included)
ReplicationOutcomes == {"updated", "no_row", "api_error", "exception"}

\* the replication job ends and puts itself back in the queue when it failed
ReplicationJobEnds_Retry(w) ==
    /\ workers[w] # None /\ workers[w][1].kind # "task"
    /\ \E outcome \in ReplicationOutcomes :
        /\ finished' = Some([job |-> workers[w][1], outcome |-> outcome])
        /\ queue' = IF outcome = "updated" THEN queue
                     ELSE Append(queue, workers[w][1])
    /\ workers' = [workers EXCEPT ![w] = None]
    /\ UNCHANGED <<tasks, now, last, returned, uuidCount, calls, upVars,
                   store, thVars>>

\* update_status, update_progress, update_result, update_field: the job
\* runs asyncio.run(update_..._in_db(...)) inside try/except Exception, logs
\* and returns
ReplicationJobEnds(w) ==
    /\ workers[w] # None /\ workers[w][1].kind # "task"
    /\ \E outcome \in ReplicationOutcomes :
            finished' = Some([job |-> workers[w][1], outcome |-> outcome])
    /\ workers' = [workers EXCEPT ![w] = None]
    /\ UNCHANGED <<regVars, now, calls, upVars, store, thVars>>

\* an idle worker thread takes the oldest waiting job; a submitted function
\* starts in wrapped_task with the call of task_func
WorkerTake(w) ==
    /\ workers[w] = None
    /\ queue # <<>>
    /\ workers' = [workers EXCEPT ![w] =
                        IF Head(queue).kind = "task"
                        THEN Some([Head(queue) EXCEPT !.pc = "func"])
                        ELSE Some(Head(queue))]
    /\ queue' = Tail(queue)
    /\ UNCHANGED <<tasks, now, last, returned, uuidCount, calls, upVars,
                   finished, store, thVars>>

\* submit_async_task(task_id, task_func): executor.submit(wrapped_task)
submit_async_task(task_id) ==
    /\ queue' = Append(queue,
                    [kind |-> "task", task_id |-> task_id, pc |-> "waiting"])
    /\ UNCHANGED <<tasks, last, returned, uuidCount>>

SubmitAsyncTask ==
    /\ Len(queue) < MaxQueue
    /\ \E id \in DOMAIN tasks : submit_async_task(id)
    /\ UNCHANGED <<now, calls, upVars, exVars, thVars>>

RunsTask(w, pc) ==
    workers[w] # None /\ workers[w][1].kind = "task" /\ workers[w][1].pc = pc

\* wrapped_task: task_func returns; a result that is not None is stored
TaskFuncReturns(w) ==
    /\ RunsTask(w, "func")
    /\ \E result \in {None, Some("r1")} :
            IF result # None
            THEN /\ Len(queue) < MaxQueue
                 /\ set_task_result(workers[w][1].task_id, result[1])
            ELSE UNCHANGED regVars
    /\ workers' = [workers EXCEPT ![w] = Some([@[1] EXCEPT !.pc = "check"])]
    /\ UNCHANGED <<now, calls, upVars, finished, store, thVars>>

\* wrapped_task: task_func raises; update_task_status(FAILED, str(e))
TaskFuncRaises(w) ==
    /\ RunsTask(w, "func")
    /\ Len(queue) < MaxQueue
    /\ \E e \in {"error", ""} :
            update_task_status(workers[w][1].task_id, "failed", Some(e))
    /\ workers' = [workers EXCEPT ![w] = None]
    /\ UNCHANGED <<now, calls, upVars, finished, store, thVars>>

\* wrapped_task: task = self.get_task(task_id) and the test of its status
TaskCheck(w) ==
    /\ RunsTask(w, "check")
    /\ get_task(workers[w][1].task_id)
    /\ workers' = [workers EXCEPT ![w] =
            IF /\ workers[w][1].task_id \in DOMAIN tasks
               /\ tasks[workers[w][1].task_id].status
                    \notin {"completed", "failed", "cancelled"}
            THEN Some([@[1] EXCEPT !.pc = "complete"])
            ELSE None]
    /\ UNCHANGED <<now, calls, upVars, finished, store, thVars>>

\* wrapped_task: update_task_status(task_id, COMPLETED)
TaskComplete(w) ==
    /\ RunsTask(w, "complete")
    /\ Len(queue) < MaxQueue
    /\ update_task_status(workers[w][1].task_id, "completed", None)
    /\ workers' = [workers EXCEPT ![w] = None]
    /\ UNCHANGED <<now, calls, upVars, finished, store, thVars>>

\* a client of the registry reports progress on a task or cancels it
ExecutorMutation ==
    /\ Len(queue) < MaxQueue
    /\ \E id \in DOMAIN tasks :
            \/ update_task_progress(id, "step", 1, 2)
            \/ cancel_task(id)
    /\ UNCHANGED <<now, calls, upVars, exVars, thVars>>

NextExecutor ==
    \/ FirstTask
    \/ ExecutorMutation
    \/ SubmitAsyncTask
    \/ \E w \in Workers : WorkerTake(w)
    \/ \E w \in Workers : ReplicationJobEnds(w)
    \/ \E w \in Workers : TaskFuncReturns(w)
    \/ \E w \in Workers : TaskFuncRaises(w)
    \/ \E w \in Workers : TaskCheck(w)
    \/ \E w \in Workers : TaskComplete(w)

SpecExecutor == Init /\ [][NextExecutor]_vars

----------------------------------------------------------------------------
(* SpecStore: the replication jobs and the projects table they write.  A   *)
(* row holds the columns status, error_message and processing_progress;    *)
(* it is inserted by create_project and changed by the update_project_...  *)
(* methods, each of which catches every exception and returns False.       *)

\* TaskStatusMapping.get_db_status: STATUS_MAPPING.get(status, "processing")
get_db_status(task_status) ==
    IF task_status \in {"pending", "completed", "failed", "cancelled"}
    THEN task_status
    ELSE "processing"

\* create_project with the project_data of a new project
ProjectRow ==
    [status |-> "pending", error_message |-> None, processing_progress |-> 0]

create_project(task_id) ==
    /\ task_id \notin DOMAIN store
    /\ store' = Extend(store, task_id, ProjectRow)

CreateProject ==
    /\ \E id \in DOMAIN tasks : create_project(id)
    /\ UNCHANGED <<regVars, now, calls, upVars, workers, finished, thVars>>

\* what a method does instead of building update_data
Raise == [raised |-> "TypeError"]

\* int(round(progress_percentage)): round half to even
Rounded(p) ==
    LET q == p.num \div p.den
        r == p.num % p.den
    IN  IF 2 * r < p.den THEN q
        ELSE IF 2 * r > p.den THEN q + 1
        ELSE IF q % 2 = 0 THEN q ELSE q + 1

\* update_project_status: the update_data it builds.  A processing_progress
\* that is not None goes through min(100, max(0, processing_progress)),
\* which raises TypeError for a str; the only caller passes a str or None.
update_project_status(status, processing_progress, error_message) ==
    IF processing_progress # None
    THEN Raise
    ELSE IF Truthy(error_message)
    THEN [status |-> get_db_status(status), error_message |-> error_message]
    ELSE [status |-> get_db_status(status)]

\* update_status: asyncio.run(update_task_status_in_db(task_id, status,
\* error_message)); the third positional parameter of
\* update_task_status_in_db is processing_progress, its error_message keeps
\* the default None
update_task_status_in_db(job) ==
    update_project_status(job.status, job.error_message, None)

\* update_project_progress: the update_data it builds
update_project_progress(completed_steps, total_steps) ==
    [processing_progress |-> Rounded(Percentage(completed_steps, total_steps))]

\* update_project_result: the update_data it builds
update_project_result ==
    [status |-> "completed", processing_progress |-> 100]

\* the update a replication job sends to the projects table
update_data(job) ==
    IF job.kind = "status" THEN update_task_status_in_db(job)
    ELSE IF job.kind = "progress"
    THEN update_project_progress(job.completed_steps, job.total_steps)
    ELSE IF job.kind = "result" THEN update_project_result
    ELSE IF job.field_name = "status" THEN [status |-> job.field_value]
    ELSE [error_message |-> job.field_value]

\* table('projects').update(update_data).eq('task_id', task_id)
Updated(row, data) ==
    [column \in DOMAIN row |->
        IF column \in DOMAIN data THEN data[column] ELSE row[column]]

\* how the update_project_... method ends: an exception before the request,
\* an APIError when the store cannot be reached, an empty response.data when
\* no row has the task_id, True otherwise
JobOutcome(job, reachable) ==
    IF update_data(job) = Raise THEN "exception"
    ELSE IF ~reachable THEN "api_error"
    ELSE IF job.task_id \notin DOMAIN store THEN "no_row"
    ELSE "updated"

\* the tasks with a replication job that did not update the store so far
Failures == IF finished = None THEN {} ELSE finished[1].failures

\* a replication job runs to its end on worker w
StoreJobEnds(w, reachable) ==
    /\ workers[w] # None /\ workers[w][1].kind # "task"
    /\ LET job == workers[w][1]
           outcome == JobOutcome(job, reachable)
       IN  /\ finished' = Some([job |-> job, outcome |-> outcome,
                                failures |->
                                    IF outcome = "updated" THEN Failures
                                    ELSE Failures \cup {job.task_id}])
           /\ store' = IF outcome = "updated"
                       THEN [store EXCEPT ![job.task_id] =
                                Updated(@, update_data(job))]
                       ELSE store
    /\ workers' = [workers EXCEPT ![w] = None]
    /\ UNCHANGED <<regVars, now, calls, upVars, thVars>>

NextStore ==
    \/ FirstTask
    \/ CreateProject
    \/ CallUpdateTaskStatus
    \/ CallCancelTask
    \/ CallSetTaskResult
    \/ \E w \in Workers : WorkerTake(w)
    \/ \E w \in Workers, reachable \in BOOLEAN : StoreJobEnds(w, reachable)

SpecStore == Init /\ [][NextStore]_vars

----------------------------------------------------------------------------
(* SpecThreads: two client threads inside the registry's methods at the    *)
(* same time.  A method body is "with self.task_lock:" around a lookup, one *)
(* attribute assignment after the other, the submission of the replication *)
(* job and the return; each of these is a step of its thread.  A reader     *)
(* keeps what get_task or list_tasks returned until its next call.  The     *)
(* clock stands still.                                                      *)

ThreadCalls(id) ==
    {[op |-> "update_task_status", task_id |-> id,
      args |-> <<"completed", None>>],
     [op |-> "update_task_status", task_id |-> id,
      args |-> <<"failed", Some("boom")>>],
     [op |-> "update_task_progress", task_id |-> id,
      args |-> <<"step", 1, 2>>],
     [op |-> "set_task_result", task_id |-> id, args |-> <<"r1">>],
     [op |-> "set_field", task_id |-> id,
      args |-> <<"error_message", Some("boom")>>],
     [op |-> "cancel_task", task_id |-> id, args |-> <<>>],
     [op |-> "get_task", task_id |-> id, args |-> <<>>],
     [op |-> "list_tasks", task_id |-> id, args |-> <<>>]}

\* the record a mutating method leaves behind when it runs on task at time t
Applied(call, task, t) ==
    CASE call.op = "update_task_status" ->
            StatusUpdated(task, call.args[1], call.args[2], t)
      [] call.op = "update_task_progress" ->
            ProgressUpdated(task, call.args[1], call.args[2], call.args[3], t)
      [] call.op = "set_task_result" -> ResultSet(task, call.args[1], t)
      [] call.op = "set_field" ->
            FieldSet(task, call.args[1], call.args[2], t)
      [] call.op = "cancel_task" -> Cancelled(task, t)

\* cancel_task returns False for a finished task; the other methods have no
\* test beyond the lookup
Accepts(call, task) ==
    call.op = "cancel_task"
        => task.status \notin {"completed", "failed", "cancelled"}

\* the attributes a method assigns, in the order of its statements
WriteOrder(call) ==
    CASE call.op = "update_task_status" ->
            <<"status", "updated_at">>
            \o (IF Truthy(call.args[2]) THEN <<"error_message">> ELSE <<>>)
            \o (IF call.args[1] \in {"completed", "failed"}
                THEN <<"processing_time">> ELSE <<>>)
      [] call.op = "update_task_progress" -> <<"progress", "updated_at">>
      [] call.op = "set_task_result" ->
            <<"result_data", "status", "updated_at", "processing_time">>
      [] call.op = "set_field" -> <<call.args[1], "updated_at">>
      [] call.op = "cancel_task" -> <<"status", "updated_at">>

\* the replication job a method submits
JobOf(call, task, t) ==
    CASE call.op = "update_task_status" ->
            [kind |-> "status", task_id |-> call.task_id,
             status |-> call.args[1], error_message |-> call.args[2]]
      [] call.op = "update_task_progress" ->
            [kind |-> "progress", task_id |-> call.task_id,
             current_step |-> call.args[1],
             completed_steps |-> call.args[2], total_steps |-> call.args[3]]
      [] call.op = "set_task_result" ->
            [kind |-> "result", task_id |-> call.task_id,
             result_data |-> call.args[1],
             processing_time |-> t - task.created_at]
      [] call.op = "set_field" ->
            [kind |-> "field", task_id |-> call.task_id,
             field_name |-> call.args[1], field_value |-> call.args[2]]
      [] call.op = "cancel_task" ->
            [kind |-> "status", task_id |-> call.task_id,
             status |-> "cancelled", error_message |-> None]

\* self.tasks in insertion order (no id is stored again after its removal)
RECURSIVE InsertionOrder(_)
InsertionOrder(ids) ==
    IF ids = <<>> THEN <<>>
    ELSE LET rest == InsertionOrder(SubSeq(ids, 1, Len(ids) - 1))
             id == ids[Len(ids)]
         IN  IF id \in DOMAIN tasks /\ \A i \in 1..Len(rest) : rest[i] # id
             THEN Append(rest, id) ELSE rest

\* tasks.sort(key=lambda x: x.created_at, reverse=True): a stable sort
RECURSIVE SortedNewestFirst(_)
SortedNewestFirst(ids) ==
    IF ids = <<>> THEN <<>>
    ELSE LET first == CHOOSE i \in 1..Len(ids) :
                /\ \A j \in 1..Len(ids) :
                        tasks[ids[j]].created_at <= tasks[ids[i]].created_at
                /\ \A j \in 1..(i - 1) :
                        tasks[ids[j]].created_at < tasks[ids[i]].created_at
         IN  <<ids[first]>> \o SortedNewestFirst(
                [k \in 1..(Len(ids) - 1) |->
                    IF k < first THEN ids[k] ELSE ids[k + 1]])

\* list_tasks() without filter and limit: references to the stored records
list_tasks == SortedNewestFirst(InsertionOrder(returned))

\* a thread calls a method of the registry
ThreadBegin(t) ==
    /\ threads[t].pc \in {"idle", "returned"}
    /\ threads[t].n < MaxThreadCalls
    /\ \E id \in DOMAIN tasks : \E call \in ThreadCalls(id) :
            threads' = [threads EXCEPT ![t] =
                [pc |-> "acquire", call |-> call, ret |-> None, todo |-> <<>>,
                 entry |-> None, exit |-> None, n |-> threads[t].n + 1]]
    /\ UNCHANGED <<regVars, now, calls, upVars, exVars, task_lock, sweeper>>

\* the thread enters the method body whether or not the lock is taken
ThreadAcquire_NoLock(t) ==
    /\ threads[t].pc = "acquire"
    /\ task_lock' = Some(t)
    /\ threads' = [threads EXCEPT ![t].pc = "lookup"]
    /\ UNCHANGED <<regVars, now, calls, upVars, exVars, sweeper>>

\* with self.task_lock:
ThreadAcquire(t) ==
    /\ threads[t].pc = "acquire"
    /\ task_lock = None
    /\ task_lock' = Some(t)
    /\ threads' = [threads EXCEPT ![t].pc = "lookup"]
    /\ UNCHANGED <<regVars, now, calls, upVars, exVars, sweeper>>

\* task = self.tasks.get(task_id) and the tests that follow it; get_task
\* returns the stored object and list_tasks a list of the stored objects
ThreadLookup(t) ==
    LET call == threads[t].call
        id == call.task_id
    IN  /\ threads[t].pc = "lookup"
        /\ threads' = [threads EXCEPT ![t] =
              IF call.op = "get_task"
              THEN [@ EXCEPT !.pc = "release",
                        !.ret = Some(IF id \in DOMAIN tasks
                                     THEN Some(id) ELSE None),
                        !.entry = IF id \in DOMAIN tasks
                                  THEN Some(tasks[id]) ELSE None]
              ELSE IF call.op = "list_tasks"
              THEN [@ EXCEPT !.pc = "release",
                        !.ret = Some(list_tasks),
                        !.entry = Some(tasks)]
              ELSE IF id \notin DOMAIN tasks
              THEN [@ EXCEPT !.pc = "release", !.ret = Some(FALSE)]
              ELSE IF ~Accepts(call, tasks[id])
              THEN [@ EXCEPT !.pc = "release", !.ret = Some(FALSE),
                        !.entry = Some(tasks[id])]
              ELSE [@ EXCEPT !.pc = "write", !.todo = WriteOrder(call),
                        !.entry = Some(tasks[id])]]
        /\ UNCHANGED <<regVars, now, calls, upVars, exVars, task_lock, sweeper>>

\* the next attribute assignment of the method
ThreadWrite(t) ==
    LET call == threads[t].call
        id == call.task_id
        field == Head(threads[t].todo)
    IN  /\ threads[t].pc = "write"
        /\ tasks' = [tasks EXCEPT ![id] =
                [f \in DOMAIN @ \cup {field} |->
                    IF f = field
                    THEN Applied(call, threads[t].entry[1], now)[f]
                    ELSE @[f]]]
        /\ threads' = [threads EXCEPT ![t] =
                [@ EXCEPT !.todo = Tail(@),
                          !.pc = IF Len(threads[t].todo) = 1
                                 THEN "submit" ELSE "write"]]
        /\ UNCHANGED <<queue, last, returned, uuidCount, now, calls, upVars,
                       exVars, task_lock, sweeper>>

\* self._update_database_..._async(...), then return True
ThreadSubmit(t) ==
    /\ threads[t].pc = "submit"
    /\ Len(queue) < MaxQueue
    /\ queue' = Append(queue,
            JobOf(threads[t].call, threads[t].entry[1], now))
    /\ threads' = [threads EXCEPT ![t] =
            [@ EXCEPT !.pc = "release", !.ret = Some(TRUE)]]
    /\ UNCHANGED <<tasks, last, returned, uuidCount, now, calls, upVars,
                   exVars, task_lock, sweeper>>

\* the with block is left and the method returns
ThreadRelease(t) ==
    /\ threads[t].pc = "release"
    /\ task_lock' = None
    /\ threads' = [threads EXCEPT ![t] =
            [@ EXCEPT !.pc = "returned",
                      !.exit = IF threads[t].call.task_id \in DOMAIN tasks
                               THEN Some(tasks[threads[t].call.task_id])
                               ELSE None]]
    /\ UNCHANGED <<regVars, now, calls, upVars, exVars, sweeper>>

NextThreads ==
    \/ FirstTask
    \/ \E t \in ThreadIds : ThreadBegin(t)
    \/ \E t \in ThreadIds : ThreadAcquire(t)
    \/ \E t \in ThreadIds : ThreadLookup(t)
    \/ \E t \in ThreadIds : ThreadWrite(t)
    \/ \E t \in ThreadIds : ThreadSubmit(t)
    \/ \E t \in ThreadIds : ThreadRelease(t)
    \/ RunJob

SpecThreads == Init /\ [][NextThreads]_vars

----------------------------------------------------------------------------
(* SpecList: a caller that creates tasks, changes their status and lists    *)
(* them with a status filter and a limit.                                   *)

\* tasks[:limit] of a Python list
Slice(list, limit) ==
    IF limit >= 0
    THEN SubSeq(list, 1, IF limit < Len(list) THEN limit ELSE Len(list))
    ELSE SubSeq(list, 1, IF Len(list) + limit > 0 THEN Len(list) + limit ELSE 0)

\* list_tasks(status_filter, limit): `if status_filter:` holds for every
\* TaskStatus member, `if limit:` fails for None and for 0
list_tasks_with(status_filter, limit) ==
    LET all == InsertionOrder(returned)
        Matches(id) == tasks[id].status = status_filter[1]
        filtered == IF status_filter # None
                    THEN SelectSeq(all, Matches) ELSE all
        sorted == SortedNewestFirst(filtered)
    IN  IF limit # None /\ limit[1] # 0
        THEN Slice(sorted, limit[1]) ELSE sorted

MaxLimit == 1

StatusFilters == {None} \cup {Some(status) : status \in TaskStatus}

Limits == {None} \cup {Some(n) : n \in 0..MaxLimit}

CallListTasks ==
    /\ \E status_filter \in StatusFilters, limit \in Limits :
            last' = [op |-> "list_tasks", id |-> AbsentId,
                     ret |-> Some(list_tasks_with(status_filter, limit)),
                     status_filter |-> status_filter, limit |-> limit]
    /\ UNCHANGED <<tasks, queue, returned, uuidCount>>
    /\ Called

NextList ==
    \/ CallCreateTask
    \/ CallUpdateTaskStatus
    \/ CallListTasks
    \/ RunJob
    \/ Tick

SpecList == Init /\ [][NextList]_vars

----------------------------------------------------------------------------
(* SpecField: a caller of set_field that may name any attribute of the     *)
(* stored TaskInfo.                                                         *)

\* field_name and field_value of the calls: setattr accepts every name
AnyFieldArgs ==
    FieldArgs \cup
    {<<"task_id", "other">>, <<"input_data", [email |-> "x"]>>,
     <<"created_at", MaxTime>>, <<"result_data", Some("r1")>>}

CallSetAnyField ==
    /\ Len(queue) < MaxQueue
    /\ \E id \in DOMAIN tasks \cup {AbsentId}, f \in AnyFieldArgs :
            set_field(id, f[1], f[2])
    /\ Called

NextField ==
    \/ FirstTask
    \/ CallSetAnyField
    \/ RunJob
    \/ Tick

SpecField == Init /\ [][NextField]_vars

----------------------------------------------------------------------------
(* SpecStats: threads inside get_task_statistics while a caller changes    *)
(* the status of tasks.  The list of TaskInfo objects is copied under      *)
(* task_lock; the counts are then computed from the objects, one pass per  *)
(* status, with the lock released.                                          *)

\* the members of TaskStatus in definition order
StatusOrder ==
    <<"pending", "uploading", "validating", "extracting", "processing",
      "rendering", "completed", "failed", "cancelled">>

active_statuses ==
    {"pending", "uploading", "validating", "extracting", "processing",
     "rendering"}

StatisticsCall ==
    [op |-> "get_task_statistics", task_id |-> AbsentId, args |-> <<>>]

\* with self.task_lock: tasks = list(self.tasks.values()), then the stats
\* dictionary with total_tasks = len(tasks)
StatsSnapshot(t) ==
    /\ threads[t].pc \in {"idle", "returned"}
    /\ threads[t].n < MaxThreadCalls
    /\ task_lock = None
    /\ threads' = [threads EXCEPT ![t] =
            [pc |-> "count", call |-> StatisticsCall,
             ret |-> Some([total_tasks |-> Cardinality(DOMAIN tasks),
                           status_counts |-> NoTasks,
                           active_tasks |-> 0]),
             todo |-> StatusOrder, entry |-> Some(DOMAIN tasks),
             exit |-> None, n |-> threads[t].n + 1]]
    /\ UNCHANGED <<regVars, now, calls, upVars, exVars, task_lock, sweeper>>

\* stats["status_counts"][status.value] =
\*     sum(1 for task in tasks if task.status == status), for the next status
StatsCount(t) ==
    /\ threads[t].pc = "count"
    /\ threads[t].todo # <<>>
    /\ LET status == Head(threads[t].todo)
           count == Cardinality({id \in threads[t].entry[1] :
                                    tasks[id].status = status})
       IN  threads' = [threads EXCEPT ![t] =
                [@ EXCEPT !.todo = Tail(@),
                          !.ret = Some([@[1] EXCEPT !.status_counts =
                                      Extend(@, status, count)])]]
    /\ UNCHANGED <<regVars, now, calls, upVars, exVars, task_lock, sweeper>>

\* stats["active_tasks"] = sum(1 for task in tasks if task.status in
\* active_statuses); return stats
StatsActive(t) ==
    /\ threads[t].pc = "count"
    /\ threads[t].todo = <<>>
    /\ threads' = [threads EXCEPT ![t] =
            [@ EXCEPT !.pc = "returned",
                      !.ret = Some([@[1] EXCEPT !.active_tasks =
                            Cardinality({id \in threads[t].entry[1] :
                                tasks[id].status \in active_statuses})])]]
    /\ UNCHANGED <<regVars, now, calls, upVars, exVars, task_lock, sweeper>>

NextStats ==
    \/ FirstTask
    \/ CallUpdateTaskStatus
    \/ \E t \in ThreadIds : StatsSnapshot(t)
    \/ \E t \in ThreadIds : StatsCount(t)
    \/ \E t \in ThreadIds : StatsActive(t)
    \/ RunJob

SpecStats == Init /\ [][NextStats]_vars

----------------------------------------------------------------------------
(* Properties *)

\* a step in which the arbitrary caller of Spec makes the registry call op
CallOf(op) == calls' = calls + 1 /\ last'.op = op

\* a step in which a mutation of task id is accepted: its replication job
\* is submitted and the call returns True
Accepted(id) ==
    /\ Len(queue') = Len(queue) + 1
    /\ last'.id = id
    /\ last'.ret = TRUE

MutatingOps ==
    {"update_task_status", "update_task_progress", "set_task_result",
     "set_field", "cancel_task"}

\* the state graph of the design: the edges a status change may follow
StateGraph ==
    ({"pending"} \X {"uploading", "validating", "extracting", "cancelled"})
    \cup ({"uploading", "validating", "extracting"}
            \X {"processing", "failed", "cancelled"})
    \cup ({"processing"} \X {"rendering", "completed", "failed", "cancelled"})
    \cup ({"rendering"} \X {"completed", "failed", "cancelled"})
    \cup ((TaskStatus \ TerminalStatuses) \X {"failed"})

\* C1: once a task's status is Completed, Failed or Cancelled, no later step
\* (a call of update_task_status, set_task_result or cancel_task by a
\* handler, the pipeline worker or delete_task) changes that status.
C1_TerminalSticky ==
    [][\A id \in DOMAIN tasks \cap DOMAIN tasks' :
          tasks[id].status \in TerminalStatuses
              => tasks'[id].status = tasks[id].status]_vars

\* C2: every change of a task's status follows an edge of the state graph.
C2_FollowsStateGraph ==
    [][\A id \in DOMAIN tasks \cap DOMAIN tasks' :
          tasks'[id].status # tasks[id].status
              => <<tasks[id].status, tasks'[id].status>> \in StateGraph]_vars

\* C3: the ids returned by create_task are pairwise distinct, whatever
\* input_data the callers pass.
C3_DistinctIds ==
    \A i, j \in 1..Len(returned) : i # j => returned[i] # returned[j]

\* C4: a create_task call leaves every record already stored as it is: no
\* id is used a second time.
C4_NoReuse ==
    [][CallOf("create_task")
          => \A id \in DOMAIN tasks :
                id \in DOMAIN tasks' /\ tasks'[id] = tasks[id]]_vars

\* C5: in every state, result_data is set if and only if the status is
\* Completed.
C5_ResultIffCompleted ==
    \A id \in DOMAIN tasks :
        tasks[id].result_data # None <=> tasks[id].status = "completed"

\* C6: in every state, error_message is set if and only if the status is
\* Failed.
C6_ErrorIffFailed ==
    \A id \in DOMAIN tasks :
        tasks[id].error_message # None <=> tasks[id].status = "failed"

\* C7: no mutation of a task in a terminal state is accepted: the call
\* returns False and the record keeps every field.
C7_TerminalRejects ==
    [][\A id \in DOMAIN tasks :
          tasks[id].status \in TerminalStatuses
              => /\ ~Accepted(id)
                 /\ id \in DOMAIN tasks' => tasks'[id] = tasks[id]]_vars

\* C8: a call of update_task_status, update_task_progress, set_task_result,
\* set_field or cancel_task with an id the registry does not hold returns
\* False, get_task with such an id returns None, and the call changes neither
\* the registry nor the executor's queue.
C8_AbsentId ==
    [][\A op \in MutatingOps \cup {"get_task"} :
          CallOf(op) /\ last'.id \notin DOMAIN tasks
              => /\ last'.ret = IF op = "get_task" THEN None ELSE FALSE
                 /\ tasks' = tasks
                 /\ queue' = queue]_vars

C8_Witness ==
    /\ last.op = "update_task_status"
    /\ last.id \notin DOMAIN tasks
    /\ last.ret = FALSE
    /\ DOMAIN tasks # {}

\* C9: cancel_task on a task in a non-terminal state returns True and sets
\* the status to Cancelled; a second cancel_task on that task, with no other
\* call in between, returns False and changes nothing.
C9_CancelTwice ==
    [][\A id \in DOMAIN tasks :
          CallOf("cancel_task") /\ last'.id = id
              => /\ tasks[id].status \notin TerminalStatuses
                        => /\ last'.ret = TRUE
                           /\ tasks'[id].status = "cancelled"
                 /\ last = Ret("cancel_task", id, TRUE)
                        => /\ last'.ret = FALSE
                           /\ tasks' = tasks
                           /\ queue' = queue]_vars

C9_Witness ==
    /\ last.op = "cancel_task"
    /\ last.ret = FALSE
    /\ last.id \in DOMAIN tasks
    /\ tasks[last.id].status = "cancelled"
    /\ tasks[last.id].updated_at = tasks[last.id].created_at

\* C10: delete_task while the pipeline of a task runs sets the status to
\* Cancelled at once, and the status stays Cancelled when the pipeline
\* worker has finished and the handler makes its registry calls.
C10_CancelDuringPipeline ==
    [][\A id \in DOMAIN hpc \cap DOMAIN tasks :
          hpc[id].pc = "awaiting"
              => /\ delete_task(id) /\ tasks[id].status \notin TerminalStatuses
                        => tasks'[id].status = "cancelled"
                 /\ tasks[id].status = "cancelled"
                        => tasks'[id].status = "cancelled"]_vars

CarriesMutation(op, job, task) ==
    CASE op \in {"update_task_status", "cancel_task"} ->
            /\ job.kind = "status"
            /\ job.status = task.status
            /\ job.error_message \in {None, task.error_message}
      [] op = "update_task_progress" ->
            /\ job.kind = "progress"
            /\ job.current_step = task.progress.current_step
            /\ job.completed_steps = task.progress.completed_steps
            /\ job.total_steps = task.progress.total_steps
      [] op = "set_task_result" ->
            /\ job.kind = "result"
            /\ Some(job.result_data) = task.result_data
            /\ Some(job.processing_time) = task.processing_time
      [] op = "set_field" ->
            /\ job.kind = "field"
            /\ task[job.field_name] = job.field_value

\* C16: a call of update_task_status, update_task_progress, set_task_result,
\* set_field or cancel_task that returns True adds exactly one replication
\* job to the executor's queue, for the task of the call and carrying what
\* the call wrote; a call that returns False adds none.
C16_OneJobPerMutation ==
    [][\A op \in MutatingOps :
          CallOf(op)
              => IF last'.ret = TRUE
                 THEN /\ Len(queue') = Len(queue) + 1
                      /\ SubSeq(queue', 1, Len(queue)) = queue
                      /\ queue'[Len(queue')].task_id = last'.id
                      /\ CarriesMutation(op, queue'[Len(queue')],
                                         tasks'[last'.id])
                 ELSE queue' = queue]_vars

C16_Witness ==
    /\ last.op = "update_task_progress"
    /\ last.ret = TRUE
    /\ Len(queue) = 1
    /\ queue[1].kind = "progress"
    /\ queue[1].task_id = last.id
    /\ queue[1].completed_steps = 1
    /\ tasks[last.id].progress.completed_steps = 1

\* p <= q for two fractions with positive denominators
FractionLeq(p, q) == p.num * q.den <= q.num * p.den

\* C12: the percentage stored for a task never decreases: every
\* update_task_progress call of a handler or of the pipeline's callback
\* stores a percentage >= the one stored before.
C12_PercentageMonotonic ==
    [][\A id \in DOMAIN tasks \cap DOMAIN tasks' :
          FractionLeq(tasks[id].progress.percentage,
                      tasks'[id].progress.percentage)]_vars

\* C13: whatever integers are passed as completed_steps and total_steps, the
\* stored percentage lies in [0, 100].
C13_PercentageClamped ==
    \A id \in DOMAIN tasks :
        LET p == tasks[id].progress.percentage
        IN  0 <= p.num /\ p.num <= 100 * p.den

\* C14: when 0 <= completed_steps <= total_steps and total_steps > 0, the
\* stored percentage is 100 * completed_steps / total_steps and lies in
\* [0, 100].
C14_PercentageValue ==
    \A id \in DOMAIN tasks :
        LET p == tasks[id].progress
        IN  0 <= p.completed_steps /\ p.completed_steps <= p.total_steps
                /\ p.total_steps > 0
            => /\ p.percentage.den > 0
               /\ p.percentage.num * p.total_steps
                    = 100 * p.completed_steps * p.percentage.den
               /\ 0 <= p.percentage.num
               /\ p.percentage.num <= 100 * p.percentage.den

C14_Witness ==
    \E id \in DOMAIN tasks :
        /\ tasks[id].progress.completed_steps = 1
        /\ tasks[id].progress.total_steps = 3
        /\ tasks[id].progress.percentage = [num |-> 100, den |-> 3]

\* C15: after update_task_progress the stored estimate is
\* (elapsed since created_at / completed_steps) * (total_steps -
\* completed_steps) when completed_steps > 0 and the percentage is below 100,
\* and null in every other case.
C15_EstimateRule ==
    \A id \in DOMAIN tasks :
        LET p == tasks[id].progress
            eta == p.estimated_time_remaining
            elapsed == tasks[id].updated_at - tasks[id].created_at
        IN  p.current_step # ""
            => IF p.completed_steps > 0
                    /\ p.percentage.num < 100 * p.percentage.den
               THEN /\ eta # None
                    /\ eta[1].den # 0
                    /\ eta[1].num * p.completed_steps
                        = elapsed * (p.total_steps - p.completed_steps)
                            * eta[1].den
               ELSE eta = None

C15_Witness ==
    \E id \in DOMAIN tasks :
        /\ tasks[id].progress.completed_steps = 1
        /\ tasks[id].progress.total_steps = 3
        /\ tasks[id].updated_at = tasks[id].created_at + 1
        /\ tasks[id].progress.estimated_time_remaining
                = Some([num |-> 2, den |-> 1])

\* C17: when a replication job ends, whatever its outcome, no task record
\* changes, the job is neither put back in the queue nor given to a worker,
\* and the return value of the registry call that submitted it and the
\* upload handlers and pipelines are left as they are.
C17_ReplicationFailureDropped ==
    [][\A w \in Workers :
          workers[w] # None /\ workers[w][1].kind # "task"
                /\ workers'[w] = None
              => /\ tasks' = tasks
                 /\ queue' = queue
                 /\ \A v \in Workers \ {w} : workers'[v] = workers[v]
                 /\ last' = last
                 /\ upVars' = upVars]_vars

C17_Witness ==
    /\ finished # None
    /\ finished[1].outcome = "exception"
    /\ finished[1].job.kind = "progress"
    /\ finished[1].job.task_id \in DOMAIN tasks
    /\ tasks[finished[1].job.task_id].progress.completed_steps = 1
    /\ last = Ret("update_task_progress", finished[1].job.task_id, TRUE)
    /\ queue = <<>>
    /\ \A w \in Workers : workers[w] = None

\* C18: a function submitted through submit_async_task never waits in the
\* executor's queue while every worker is busy with a replication job.
C18_PipelineNotBehindReplication ==
    ~ /\ \E i \in 1..Len(queue) : queue[i].kind = "task"
      /\ \A w \in Workers : workers[w] # None /\ workers[w][1].kind # "task"

\* what a mutating call leaves behind and returns when it runs alone on task
Outcome(call, task) ==
    [record |-> IF Accepts(call, task) THEN Applied(call, task, now)
                ELSE task,
     ret |-> Accepts(call, task)]

\* the call of thread a ran as a whole, then the call of thread b
Sequential(a, b) ==
    /\ threads[a].entry # None /\ threads[b].entry # None
    /\ threads[a].exit = Some(Outcome(threads[a].call,
                                       threads[a].entry[1]).record)
    /\ threads[a].ret = Some(Outcome(threads[a].call,
                                      threads[a].entry[1]).ret)
    /\ threads[b].entry = threads[a].exit
    /\ threads[b].exit = Some(Outcome(threads[b].call,
                                       threads[b].entry[1]).record)
    /\ threads[b].ret = Some(Outcome(threads[b].call,
                                      threads[b].entry[1]).ret)
    /\ tasks[threads[b].call.task_id] = threads[b].exit[1]

\* C19: when two threads have each made one mutating call on the same task
\* and both calls have returned, the record and the two return values are
\* those of one call run as a whole followed by the other.
C19_MutationsAtomic ==
    \A t1, t2 \in ThreadIds :
        /\ t1 # t2
        /\ \A t \in {t1, t2} :
                /\ threads[t].pc = "returned" /\ threads[t].n = 1
                /\ threads[t].call.op \in MutatingOps
        /\ threads[t1].call.task_id = threads[t2].call.task_id
        => Sequential(t1, t2) \/ Sequential(t2, t1)

C19_Witness ==
    /\ threads["t1"].pc = "returned" /\ threads["t2"].pc = "returned"
    /\ threads["t1"].call.op = "cancel_task"
    /\ threads["t1"].ret = Some(FALSE)
    /\ threads["t2"].call.op = "update_task_status"
    /\ threads["t2"].ret = Some(TRUE)
    /\ tasks[threads["t1"].call.task_id].status = "failed"

\* C20: what get_task returned, and every task of the list list_tasks
\* returned, stays as it was when the call returned, whatever another thread
\* does to the registry afterwards.
C20_ReadsAreSnapshots ==
    \A t \in ThreadIds :
        threads[t].pc = "returned" /\ threads[t].ret # None
        => /\ threads[t].call.op = "get_task" /\ threads[t].ret[1] # None
                => tasks[threads[t].ret[1][1]] = threads[t].entry[1]
           /\ threads[t].call.op = "list_tasks"
                => \A i \in 1..Len(threads[t].ret[1]) :
                        tasks[threads[t].ret[1][i]]
                            = threads[t].entry[1][threads[t].ret[1][i]]

\* C21: a cleanup pass under retention window r removes exactly the records
\* whose status is completed, failed or cancelled and whose updated_at is
\* before now - r; every other record stays as it was, and a record in a
\* non-terminal status is never removed, for every window r from 0 up.
C21_CleanupExact ==
    [][\A r \in RetentionHours :
        cleanup_old_tasks_with(r) =>
            /\ \A id \in DOMAIN tasks :
                    id \notin DOMAIN tasks' <=>
                        /\ tasks[id].status \in TerminalStatuses
                        /\ tasks[id].updated_at + r < now
            /\ \A id \in DOMAIN tasks' :
                    id \in DOMAIN tasks /\ tasks'[id] = tasks[id]
            /\ \A id \in DOMAIN tasks :
                    tasks[id].status \notin TerminalStatuses
                        => id \in DOMAIN tasks']_vars

\* a terminal record has been evicted while a pending record older than every
\* retention window is still there
C21_Witness ==
    /\ \E id \in DOMAIN tasks :
            /\ tasks[id].status = "pending"
            /\ tasks[id].updated_at + MaxRetention < now
    /\ \E i \in 1..Len(returned) : returned[i] \notin DOMAIN tasks

C23_ListOrderedFilteredLimited ==
    last.op = "list_tasks" =>
        LET list == last.ret[1]
        IN  /\ \A i, j \in 1..Len(list) :
                    i < j => tasks[list[i]].created_at
                                >= tasks[list[j]].created_at
            /\ last.status_filter # None =>
                    \A i \in 1..Len(list) :
                        tasks[list[i]].status = last.status_filter[1]
            /\ last.limit # None => Len(list) <= last.limit[1]

\* C24: at most one execution of a task is in progress at any time: no two
\* workers of the executor are inside the function submitted for the same
\* task id.
C24_OneExecutionPerTask ==
    \A v, w \in Workers :
        /\ v # w
        /\ RunsTask(v, "func")
        /\ RunsTask(w, "func")
        => workers[v][1].task_id # workers[w][1].task_id

\* C25: the number of pipeline runs executing at the same time never
\* exceeds MAX_CONCURRENT_TASKS, counting the functions the executor's
\* workers run for submit_async_task and the process_reconstruction runs
\* the upload handlers have started.
C25_RunsBounded ==
    Cardinality({w \in Workers : workers[w] # None
                                  /\ workers[w][1].kind = "task"})
        + Cardinality(RunningPipelines) <= MAX_CONCURRENT_TASKS

\* C26: when the images directory exists and holds fewer than 3 image files,
\* process_reconstruction returns success = false with an error message that
\* says at least 3 images are needed, it has started no stage process, and
\* the task is never in status processing.
C26_TooFewImages ==
    \A id \in DOMAIN ppc :
        /\ tasks[id].status # "processing"
        /\ ppc[id].images_dir /\ ppc[id].n_images < 3 =>
            /\ ppc[id].pc = "failed"
            /\ ppc[id].result # None
            /\ ppc[id].result[1].success = FALSE
            /\ ppc[id].result[1].error_message =
                    Some("at least 3 images are needed, found "
                            \o ToString(ppc[id].n_images))
            /\ ppc[id].processes = <<>>

\* a run that found 2 images has returned and its handler has reported the
\* failure
C26_Witness ==
    \E id \in DOMAIN ppc :
        /\ ppc[id].images_dir /\ ppc[id].n_images = 2
        /\ hpc[id].pc = "done"
        /\ tasks[id].status = "failed"

\* C27: the stages run in order and a failed stage aborts the pipeline: the
\* training process is started only after geometry initialization exited
\* with code 0, the results are collected only after training exited with
\* code 0, and when geometry initialization exits non-zero, times out or
\* cannot be launched the run returns success = false and no training
\* process has been started.
C27_StagesInOrder ==
    \A id \in DOMAIN ppc :
        LET run == ppc[id]
            started(p) == \E i \in 1..Len(run.processes) :
                                run.processes[i] = p
        IN  /\ run.processes \in {<<>>, <<"init_geo">>, <<"init_geo", "train">>}
            /\ started("train") => run.init = "exit0"
            /\ run.collected => run.train = "exit0" /\ started("train")
            /\ run.init \in {"nonzero", "timeout", "exception"} =>
                    /\ run.pc = "failed"
                    /\ run.result # None
                    /\ run.result[1].success = FALSE
                    /\ ~started("train")
                    /\ ~run.collected

\* a run has stopped after a geometry initialization that exited non-zero,
\* and its handler has reported the failure
C27_Witness ==
    \E id \in DOMAIN ppc :
        /\ ppc[id].init = "nonzero"
        /\ ppc[id].pc = "failed"
        /\ hpc[id].pc = "done"

\* C28: when training exceeds its timeout the training process is terminated
\* and the task ends failed with an error message that identifies a timeout:
\* the message differs from the one of a task whose training exited non-zero.
C28_TimeoutIdentified ==
    \A a \in DOMAIN ppc :
        ppc[a].train = "timeout" /\ hpc[a].pc = "done" =>
            /\ ppc[a].terminated
            /\ tasks[a].status = "failed"
            /\ \A b \in DOMAIN ppc :
                    ppc[b].train = "nonzero" /\ hpc[b].pc = "done" =>
                        tasks[a].error_message # tasks[b].error_message

\* C29: within one process_reconstruction run the fractions passed to the
\* progress callback are all in [0, 1] and never decrease, and every fraction
\* reported while the training process is alive is between 0.30 and 0.80.
C29_FractionsMonotonic ==
    \A id \in DOMAIN ppc :
        LET reports == ppc[id].reports
        IN  /\ \A i \in 1..Len(reports) :
                    /\ FractionLeq(Fraction(0), reports[i].progress)
                    /\ FractionLeq(reports[i].progress, Fraction(100))
                    /\ reports[i].training =>
                        /\ FractionLeq(Fraction(30), reports[i].progress)
                        /\ FractionLeq(reports[i].progress, Fraction(80))
            /\ \A i, j \in 1..Len(reports) :
                    i < j => FractionLeq(reports[i].progress,
                                         reports[j].progress)

\* a run has reported 0.80 while its training process was alive and has
\* gone on to report 1.0
C29_Witness ==
    \E id \in DOMAIN ppc :
        LET reports == ppc[id].reports
        IN  /\ \E i \in 1..Len(reports) :
                    /\ reports[i].training
                    /\ reports[i].progress = TrainingFraction(train_timeout)
                    /\ FractionLeq(Fraction(80), reports[i].progress)
            /\ reports[Len(reports)].progress = Fraction(100)

\* C30: a failure of a stage (input test, geometry initialization, training:
\* non-zero exit, timeout or an exception at launch) ends the run with a
\* returned result that has success = false and a non-empty error message,
\* and its output_dir is "" when the output directory was not yet set.
C30_FailureReturned ==
    \A id \in DOMAIN ppc :
        LET run == ppc[id]
            stage_failed ==
                \/ run.init \in {"nonzero", "timeout", "exception"}
                \/ run.train \in {"nonzero", "timeout", "exception"}
                \/ /\ run.pc \notin {"idle", "validate"}
                   /\ InputError(run.images_dir, run.n_images) # None
        IN  /\ run.pc \in {"failed", "succeeded"} <=> run.result # None
            /\ run.pc = "failed" =>
                /\ run.result[1].success = FALSE
                /\ Truthy(run.result[1].error_message)
                /\ run.output_dir = None => run.result[1].output_dir = ""
                /\ run.output_dir # None =>
                        run.result[1].output_dir = run.output_dir[1]
            /\ run.pc = "succeeded" => run.result[1].success = TRUE
            /\ stage_failed => run.pc = "failed"

\* a run whose images directory is missing has returned with an empty
\* output_dir, and the handler has reported the failure
C30_Witness ==
    \E id \in DOMAIN ppc :
        /\ ppc[id].pc = "failed"
        /\ ppc[id].output_dir = None
        /\ ppc[id].result[1].output_dir = ""
        /\ hpc[id].pc = "done"
        /\ tasks[id].status = "failed"

\* C31: every task in a terminal status has processing_time set to
\* updated_at - created_at of the moment it entered that status, whether
\* update_task_status, set_task_result or cancel_task made the transition,
\* and the value does not change afterwards.
C31_ProcessingTimeSet ==
    [][\A id \in DOMAIN tasks' :
        LET new == tasks'[id]
        IN  new.status \in TerminalStatuses =>
                /\ new.processing_time # None
                /\ id \in DOMAIN tasks =>
                    IF tasks[id].status \in TerminalStatuses
                    THEN new.processing_time = tasks[id].processing_time
                    ELSE new.processing_time =
                            Some(new.updated_at - new.created_at)]_vars

\* C32: a task's id and input are immutable after creation: whatever
\* registry operation runs, set_field with any field name included, the
\* record stored under key k keeps task_id = k and keeps its input_data and
\* created_at.
C32_IdAndInputImmutable ==
    [][\A id \in DOMAIN tasks \cap DOMAIN tasks' :
        /\ tasks'[id].task_id = id
        /\ tasks'[id].input_data = tasks[id].input_data
        /\ tasks'[id].created_at = tasks[id].created_at]_vars

\* C33: a task run through submit_async_task that is not yet terminal
\* becomes completed when its function returns (with result_data set when
\* the return value is not None) and becomes failed, with the text of the
\* exception as its error_message, when the function raises.
C33_RunEndsTerminal ==
    [][\A w \in Workers :
        /\ TaskFuncRaises(w) =>
            LET id == workers[w][1].task_id
            IN  id \in DOMAIN tasks
                    /\ tasks[id].status \notin TerminalStatuses =>
                /\ tasks'[id].status = "failed"
                /\ tasks'[id].error_message
                        = queue'[Len(queue')].error_message
        /\ TaskFuncReturns(w) =>
            LET id == workers[w][1].task_id
            IN  id \in DOMAIN tasks /\ tasks'[id] # tasks[id] =>
                /\ tasks'[id].status = "completed"
                /\ tasks'[id].result_data # None
        /\ TaskComplete(w) =>
            LET id == workers[w][1].task_id
            IN  id \in DOMAIN tasks => tasks'[id].status = "completed"]_vars

\* C34: the auto-complete step of wrapped_task never overwrites a
\* cancellation: its update_task_status(COMPLETED) does not run on a task
\* that cancel_task has cancelled, so such a task stays cancelled.
C34_AutoCompleteKeepsCancel ==
    [][\A w \in Workers :
        TaskComplete(w) =>
            LET id == workers[w][1].task_id
            IN  id \in DOMAIN tasks /\ tasks[id].status = "cancelled"
                    => tasks'[id].status = "cancelled"]_vars

RECURSIVE SumCounts(_, _)
SumCounts(counts, statuses) ==
    IF statuses = {} THEN 0
    ELSE LET status == CHOOSE x \in statuses : TRUE
         IN  counts[status] + SumCounts(counts, statuses \ {status})

\* C35: the statistics get_task_statistics returns are self-consistent while
\* other threads change task statuses: the per-status counts sum to
\* total_tasks, and active_tasks is total_tasks minus the counts of
\* completed, failed and cancelled.
C35_StatisticsConsistent ==
    \A t \in ThreadIds :
        /\ threads[t].pc = "returned"
        /\ threads[t].call.op = "get_task_statistics"
        => LET stats == threads[t].ret[1]
           IN  /\ SumCounts(stats.status_counts, TaskStatus)
                    = stats.total_tasks
               /\ stats.active_tasks
                    = stats.total_tasks
                        - SumCounts(stats.status_counts, TerminalStatuses)

\* C38: the estimated_time_remaining update_task_progress stores is, whenever
\* it is not null, non-negative for every completed_steps >= 0 and
\* total_steps >= 0, total_steps = 0 with completed_steps > 0 included.
C38_EstimateNonNegative ==
    \A id \in DOMAIN tasks :
        LET progress == tasks[id].progress
        IN  /\ progress.completed_steps >= 0
            /\ progress.total_steps >= 0
            /\ progress.estimated_time_remaining # None
            => progress.estimated_time_remaining[1].num >= 0

\* C36: when update_task_status(id, FAILED, msg) has succeeded, the store can
\* be reached and holds a row for id, the replication job of that call
\* writes status 'failed' together with error_message msg to the row and
\* ends successfully.
C36_FailureMessageStored ==
    [][\A w \in Workers :
            /\ StoreJobEnds(w, TRUE)
            /\ workers[w][1].kind = "status"
            /\ workers[w][1].status = "failed"
            /\ Truthy(workers[w][1].error_message)
            /\ workers[w][1].task_id \in DOMAIN store
            => /\ finished'[1].outcome = "updated"
               /\ store'[workers[w][1].task_id].status = "failed"
               /\ store'[workers[w][1].task_id].error_message
                    = workers[w][1].error_message]_vars

\* the replication jobs of task id that wait in the executor or run on a worker
PendingJobs(id) ==
    {i \in DOMAIN queue : queue[i].task_id = id}
        \cup {w \in Workers : workers[w] # None /\ workers[w][1].task_id = id}

\* C37: once every replication job of a task has run and none of them failed,
\* the status in the task's row of the store is the image, under the status
\* mapping, of the task's status in the registry, whatever the scheduling of
\* the pool's workers.
C37_StoreMatchesRegistry ==
    \A id \in DOMAIN tasks \cap DOMAIN store :
        /\ PendingJobs(id) = {}
        /\ id \notin Failures
        => store[id].status = get_db_status(tasks[id].status)

\* the task ids the registry can hold
SweptIds == {Uuid4(n) : n \in 1..MaxCalls} \cup GivenIds

\* C39: the retention sweeper makes progress: its loop goes on after a sweep
\* has raised, and a terminal task whose updated_at is older than the
\* retention window is eventually removed unless it is mutated again.
C39_SweeperProgress ==
    /\ (sweeper.pc = "sweep") ~> (sweeper.pc = "sleep")
    /\ \A id \in SweptIds :
            (id \in tasks_to_remove)
                ~> (\/ id \notin DOMAIN tasks
                    \/ tasks[id].status \notin TerminalStatuses
                    \/ tasks[id].updated_at >= cutoff_time(TASK_RETENTION))

\* a sweep has raised, and the last sweep removed the only task
C39_Witness ==
    /\ sweeper.logged
    /\ sweeper.pc = "sleep"
    /\ sweeper.cleaned_count = 1
    /\ returned # <<>>
    /\ DOMAIN tasks = {}

====
